---------------------------- MODULE Spec2Model ----------------------------
(***************************************************************************)
(* Felma backend: the priority-ranking helpers (computePriorityRank,       *)
(* tierForPR, shouldLeaderUnblock), the request validators of the          *)
(* variants, and the route handlers that persist ratings and ranking       *)
(* results into the items table.                                           *)
(*                                                                         *)
(* Conventions.                                                            *)
(*  - A finite JavaScript Number n >= 0 is held as the integer 2*n, so the *)
(*    model can hold integers and half-integers (2.5 is 5).  N(k) is the   *)
(*    Number k.                                                            *)
(*  - A JSON / column value is a record [t |-> type, v |-> payload]; a     *)
(*    Number is [t |-> "number", x2 |-> twice its value].                  *)
(*  - The items table is a sequence of rows, the id of a row being its     *)
(*    index; a row maps the column names of Cols to values.  The columns   *)
(*    tracked are the four ratings, the ranking result, the lifecycle      *)
(*    stage and the timestamps the handlers set with them.                 *)
(*  - IEEE-754 binary64 arithmetic is computed exactly: a double x >= 0 is *)
(*    the natural number x * 2^FracBits, kept as little-endian limbs in    *)
(*    base 2^LimbBits (TLC integers are 32 bits wide).                     *)
(***************************************************************************)
EXTENDS Integers, Sequences, FiniteSets, TLC

VARIABLES
    arg,     \* pure-function specifications: the input drawn by Init
    ret,     \* pure-function specifications: the value returned, or NoRet
    prog,    \* which variant of the backend is running
    items,   \* the items table: id -> row (a row maps column names to values)
    wrote,   \* history: for each row, the request that last wrote it
    req,     \* the HTTP request being handled, or NoReq
    res      \* the response to the last request, or NoRes

vars == <<arg, ret, prog, items, wrote, req, res>>

---------------------------------------------------------------------------
(* Natural numbers wider than 32 bits: little-endian limbs.                *)

LimbBits == 15
Base == 2^LimbBits

Limb(a, i) == IF i >= 1 /\ i <= Len(a) THEN a[i] ELSE 0

RECURSIVE Norm(_)
Norm(a) ==
    IF Len(a) > 0 /\ a[Len(a)] = 0 THEN Norm(SubSeq(a, 1, Len(a) - 1)) ELSE a

RECURSIVE IntLimbs(_)
IntLimbs(n) == IF n = 0 THEN <<>> ELSE <<n % Base>> \o IntLimbs(n \div Base)

RECURSIVE LimbsInt(_)
LimbsInt(a) == IF Len(a) = 0 THEN 0 ELSE a[1] + Base * LimbsInt(Tail(a))

RECURSIVE AddC(_, _, _, _)
AddC(a, b, i, c) ==
    IF i > Len(a) /\ i > Len(b)
    THEN (IF c = 0 THEN <<>> ELSE <<c>>)
    ELSE LET s == Limb(a, i) + Limb(b, i) + c
         IN  <<s % Base>> \o AddC(a, b, i + 1, s \div Base)

BigAdd(a, b) == Norm(AddC(a, b, 1, 0))

RECURSIVE MulC(_, _, _, _)
MulC(a, d, i, c) ==
    IF i > Len(a)
    THEN (IF c = 0 THEN <<>> ELSE <<c>>)
    ELSE LET p == a[i] * d + c
         IN  <<p % Base>> \o MulC(a, d, i + 1, p \div Base)

RECURSIVE MulAcc(_, _, _)
MulAcc(a, b, j) ==
    IF j > Len(b) THEN <<>>
    ELSE AddC(MulC(a, b[j], 1, 0), <<0>> \o MulAcc(a, b, j + 1), 1, 0)

BigMul(a, b) == Norm(MulAcc(a, b, 1))

\* floor(a / d) and a mod d for a small divisor d, most significant limb first
RECURSIVE DivStep(_, _, _, _)
DivStep(a, d, i, rem) ==
    IF i = 0 THEN [q |-> <<>>, r |-> rem]
    ELSE LET cur  == rem * Base + a[i]
             rest == DivStep(a, d, i - 1, cur % d)
         IN  [q |-> Append(rest.q, cur \div d), r |-> rest.r]

BitLenInt(n) ==
    IF n = 0 THEN 0 ELSE CHOOSE k \in 1..LimbBits : 2^(k - 1) <= n /\ n < 2^k

BitLen(a) ==
    LET n == Norm(a)
    IN  IF Len(n) = 0 THEN 0
        ELSE LimbBits * (Len(n) - 1) + BitLenInt(n[Len(n)])

ShiftRight(a, s) ==
    LET q == s \div LimbBits
        r == s % LimbBits
        n == IF Len(a) > q THEN Len(a) - q ELSE 0
    IN  Norm([i \in 1..n |->
                (a[i + q] \div 2^r) + (Limb(a, i + q + 1) % 2^r) * 2^(LimbBits - r)])

ShiftLeft(a, s) ==
    LET q == s \div LimbBits
        r == s % LimbBits
    IN  Norm([i \in 1..q |-> 0] \o
             [i \in 1..(Len(a) + 1) |->
                ((Limb(a, i) * 2^r) % Base) + ((Limb(a, i - 1) * 2^r) \div Base)])

Bit(a, k) == (Limb(a, (k \div LimbBits) + 1) \div 2^(k % LimbBits)) % 2

LowZero(a, k) ==
    /\ \A i \in 1..(k \div LimbBits) : Limb(a, i) = 0
    /\ Limb(a, (k \div LimbBits) + 1) % 2^(k % LimbBits) = 0

---------------------------------------------------------------------------
(* IEEE-754 binary64, round to nearest, ties to even.  Every double of the *)
(* model is 0 or lies in [2^-7, 2^53), so it is a multiple of 2^-FracBits  *)
(* and neither underflow nor overflow occurs.                              *)

Mantissa == 53
FracBits == 4 * LimbBits

\* n (with `sticky`: a non-zero part below n was cut off) rounded to
\* Mantissa significant bits
RoundSig(n, sticky) ==
    LET len == BitLen(n)
        s   == len - Mantissa
    IN  IF len <= Mantissa THEN Norm(n)
        ELSE LET q  == ShiftRight(n, s)
                 up == /\ Bit(n, s - 1) = 1
                       /\ \/ ~LowZero(n, s - 1)
                          \/ sticky
                          \/ Bit(n, s) = 1
             IN  ShiftLeft(IF up THEN BigAdd(q, <<1>>) ELSE q, s)

\* the double nearest to the decimal literal num/den
Literal(num, den) ==
    LET scaled == ShiftLeft(IntLimbs(num), 2 * FracBits)
        d      == DivStep(scaled, den, Len(scaled), 0)
    IN  ShiftRight(RoundSig(Norm(d.q), d.r # 0), FracBits)

\* the double of a Number held as twice its value
ToDouble(n2) == ShiftLeft(IntLimbs(n2), FracBits - 1)

DMul(x, y) == ShiftRight(RoundSig(BigMul(x, y), FALSE), FracBits)

DAdd(x, y) == RoundSig(BigAdd(x, y), FALSE)

\* mutant: the fraction cut off instead of rounded
MathRound_floor(x) == LimbsInt(ShiftRight(x, FracBits))

\* Math.round: the nearest integer, a half rounded up
MathRound(x) == LimbsInt(ShiftRight(BigAdd(x, ToDouble(1)), FracBits))

---------------------------------------------------------------------------
(* Numbers and JSON values                                                 *)

N(k) == 2 * k

IsInteger(n2) == n2 % 2 = 0

Undefined == [t |-> "undefined", v |-> 0]
Null      == [t |-> "null", v |-> 0]
NaN       == [t |-> "nan", v |-> 0]
Num(n2)   == [t |-> "number", x2 |-> n2]
Str(s)    == [t |-> "string", v |-> s]
Bool(b)   == [t |-> "boolean", v |-> b]

\* the strings of the model that read as a decimal number, with their value
NumericStrings == ("7" :> N(7))

\* typeof x === "number"
TypeIsNumber(x) == x.t \in {"number", "nan"}

\* Number.isFinite(x), for a value that is already a Number
IsFinite(x) == x.t = "number"

\* Number(x), also unary +x
Number(x) ==
    CASE x.t = "number"    -> x
      [] x.t = "nan"       -> NaN
      [] x.t = "undefined" -> NaN
      [] x.t = "null"      -> Num(0)
      [] x.t = "boolean"   -> IF x.v THEN Num(N(1)) ELSE Num(0)
      [] x.t = "string"    ->
            IF x.v = "" THEN Num(0)
            ELSE IF x.v \in DOMAIN NumericStrings THEN Num(NumericStrings[x.v])
            ELSE NaN

\* the truthiness of a value (x && ..., x || ..., !x, !!x)
Truthy(x) ==
    CASE x.t = "number"  -> x.x2 # 0
      [] x.t = "string"  -> x.v # ""
      [] x.t = "boolean" -> x.v
      [] OTHER           -> FALSE

\* x ?? y
Coalesce(x, y) == IF x.t \in {"undefined", "null"} THEN y ELSE x

\* x || y
OrElse(x, y) == IF Truthy(x) THEN x ELSE y

\* Math.round of a finite Number held as twice its value
RoundNumber(n2) == 2 * ((n2 + 1) \div 2)

\* Math.floor of a finite Number held as twice its value
FloorNumber(n2) == 2 * (n2 \div 2)

Min(a, b) == IF a <= b THEN a ELSE b
Max(a, b) == IF a >= b THEN a ELSE b

\* a key of a request body; an absent key reads as undefined
Get(body, k) == IF k \in DOMAIN body THEN body[k] ELSE Undefined

---------------------------------------------------------------------------
(* Text: a string's characters are a sequence of one-character strings     *)

\* the characters String.prototype.trim and the regular expression \s take
\* for whitespace, among those of the model
Whitespace == {" ", "\n"}

\* s.trimStart()
RECURSIVE TrimStart(_)
TrimStart(cs) ==
    IF Len(cs) > 0 /\ cs[1] \in Whitespace THEN TrimStart(Tail(cs)) ELSE cs

\* s.trimEnd()
RECURSIVE TrimEnd(_)
TrimEnd(cs) ==
    IF Len(cs) > 0 /\ cs[Len(cs)] \in Whitespace
    THEN TrimEnd(SubSeq(cs, 1, Len(cs) - 1)) ELSE cs

\* s.trim()
Trim(cs) == TrimEnd(TrimStart(cs))

\* s.replace(/\s+/g, " "): the first character of each whitespace run becomes
\* a space, the rest of the run goes
Collapse(cs) ==
    LET marked == [i \in 1..Len(cs) |->
                      [c     |-> IF cs[i] \in Whitespace THEN " " ELSE cs[i],
                       first |-> \/ cs[i] \notin Whitespace
                                 \/ i = 1
                                 \/ cs[i - 1] \notin Whitespace]]
        First(m) == m.first
        kept == SelectSeq(marked, First)
    IN  [i \in 1..Len(kept) |-> kept[i].c]

\* s.slice(0, n)
Slice(cs, n) == SubSeq(cs, 1, Min(n, Len(cs)))

\* the strings that JSON values of the model hold, with their characters
Chars ==
    ("" :> <<>>)
        @@ ("note" :> <<"n", "o", "t", "e">>)
        @@ (" note " :> <<" ", "n", "o", "t", "e", " ">>)
        @@ ("idea" :> <<"i", "d", "e", "a">>)
        @@ ("(untitled)" :> <<"(", "u", "n", "t", "i", "t", "l", "e", "d", ")">>)
        @@ ("acme" :> <<"a", "c", "m", "e">>)
        @@ (" acme " :> <<" ", "a", "c", "m", "e", " ">>)
        @@ ("beta" :> <<"b", "e", "t", "a">>)
        @@ ("  " :> <<" ", " ">>)
        @@ ("stmichaels" :> <<"s", "t", "m", "i", "c", "h", "a", "e", "l", "s">>)

\* the string made of the characters cs
FromChars(cs) == CHOOSE s \in DOMAIN Chars : Chars[s] = cs

---------------------------------------------------------------------------
(* The ranking helpers (identical in part_000, part_004, part_007,         *)
(* part_014 and, for the rank, index.js)                                   *)

W_CUSTOMER  == Literal(57, 100)
W_TEAM      == Literal(43, 100)
W_FREQUENCY == Literal(6, 10)
W_EASE      == Literal(4, 10)

\* mutant: the 0.57 / 0.43 weights left out of the first factor
computePriorityRank_unweighted(customer_impact, team_energy, frequency, ease) ==
    LET a == DAdd(ToDouble(customer_impact), ToDouble(team_energy))
        b == DAdd(DMul(W_FREQUENCY, ToDouble(frequency)),
                  DMul(W_EASE, ToDouble(ease)))
    IN  N(MathRound(DMul(a, b)))

computePriorityRank(customer_impact, team_energy, frequency, ease) ==
    LET a == DAdd(DMul(W_CUSTOMER, ToDouble(customer_impact)),
                  DMul(W_TEAM, ToDouble(team_energy)))
        b == DAdd(DMul(W_FREQUENCY, ToDouble(frequency)),
                  DMul(W_EASE, ToDouble(ease)))
    IN  N(MathRound(DMul(a, b)))

\* mutant: the band edges taken as exclusive
tierForPR_exclusive(pr) ==
    IF pr > N(70) THEN "Make it happen"
    ELSE IF pr > N(50) THEN "Act on it now"
    ELSE IF pr > N(36) THEN "Move it forward"
    ELSE IF pr > N(25) THEN "When time allows"
    ELSE "Park for later"

\* the labels are held without their leading emoji
tierForPR(pr) ==
    IF pr >= N(70) THEN "Make it happen"
    ELSE IF pr >= N(50) THEN "Act on it now"
    ELSE IF pr >= N(36) THEN "Move it forward"
    ELSE IF pr >= N(25) THEN "When time allows"
    ELSE "Park for later"

\* mutant: either condition taken as enough
shouldLeaderUnblock_either(team_energy, ease) ==
    team_energy >= N(9) \/ ease <= N(3)

\* mutant: the ease threshold taken as exclusive
shouldLeaderUnblock_strict(team_energy, ease) ==
    team_energy >= N(9) /\ ease < N(3)

shouldLeaderUnblock(team_energy, ease) ==
    team_energy >= N(9) /\ ease <= N(3)

---------------------------------------------------------------------------
(* The validators and coercions of the variants                            *)

\* part_000
num1to10(x) ==
    LET n == Number(x)
    IN  IF IsFinite(n) /\ n.x2 >= N(1) /\ n.x2 <= N(10) THEN n ELSE Null

\* part_007
numOrNull(v) ==
    IF v.t \in {"null", "undefined"} \/ v = Str("") THEN Null
    ELSE LET n == IF v.t = "string" THEN Number(v) ELSE v
         IN  IF IsFinite(n) THEN n ELSE Null

\* part_007: Number.isFinite(n) && n >= 1 && n <= 10
finite1to10(n) == IsFinite(n) /\ n.x2 >= N(1) /\ n.x2 <= N(10)

\* part_014
looksLike1to10(n) == n.t = "number" /\ n.x2 >= N(1) /\ n.x2 <= N(10)

\* part_004
toNum(v) ==
    LET n == Number(v)
    IN  IF n.t = "nan" THEN Null ELSE n

\* part_004: typeof s === "string" ? s.trim() : ""
clean(s) == IF s.t = "string" THEN FromChars(Trim(Chars[s.v])) ELSE ""

\* part_012
clamp10(n) ==
    LET x == Number(n)
    IN  IF ~IsFinite(x) THEN Null
        ELSE Num(Max(N(1), Min(N(10), RoundNumber(x.x2))))

\* index.js, pg variant
safeInt(v) ==
    IF IsFinite(Number(v)) THEN Num(Max(0, Min(N(10), Number(v).x2))) ELSE Null

\* parseInt(x, 10) of a Number or a string of the model
parseInt(x) ==
    LET n == IF x.t = "string" /\ x.v = "" THEN NaN ELSE Number(x)
    IN  IF x.t \in {"number", "string"} /\ IsFinite(n)
        THEN Num(FloorNumber(n.x2)) ELSE NaN

\* part_014, POST /api/items/:id/rank: Math.max(1, Math.min(10, parseInt(n || 0, 10)))
clamp(n) ==
    LET p == parseInt(OrElse(n, Num(0)))
    IN  IF IsFinite(p) THEN Num(Max(N(1), Min(N(10), p.x2))) ELSE NaN

---------------------------------------------------------------------------
(* Specification SpecEngine: the three helpers applied to every rating set *)
(* of integers in 1..10.                                                   *)

RatingFields == {"customer_impact", "team_energy", "frequency", "ease"}

NoReq == [op |-> "none", id |-> 0, body |-> <<>>]
NoRes == [status |-> 0, error |-> ""]

Idle == prog = "none" /\ items = <<>> /\ wrote = <<>> /\ req = NoReq /\ res = NoRes

InitEngine ==
    /\ arg \in [RatingFields -> 1..10]
    /\ ret = <<>>
    /\ Idle

Rank ==
    /\ prog = "none"
    /\ ret = <<>>
    /\ arg \in [RatingFields -> 1..10]
    /\ LET pr == computePriorityRank(N(arg.customer_impact), N(arg.team_energy),
                                     N(arg.frequency), N(arg.ease))
       IN  ret' = << [priority_rank     |-> Num(pr),
                      action_tier       |-> tierForPR(pr),
                      leader_to_unblock |->
                          shouldLeaderUnblock(N(arg.team_energy), N(arg.ease))] >>
    /\ UNCHANGED <<arg, prog, items, wrote, req, res>>

\* a handler calls the helpers again for every request: the same input can
\* be ranked again
Forget ==
    /\ prog = "none"
    /\ Len(ret) = 1
    /\ "priority_rank" \in DOMAIN ret[1]
    /\ ret' = <<>>
    /\ UNCHANGED <<arg, prog, items, wrote, req, res>>

NextEngine == Rank \/ Forget

SpecEngine == InitEngine /\ [][NextEngine]_vars

---------------------------------------------------------------------------
(* Specification SpecTier: tierForPR applied to two ranks                  *)

InitTier ==
    /\ arg \in [a : 1..100, b : 1..100]
    /\ ret = <<>>
    /\ Idle

Tier ==
    /\ prog = "none"
    /\ ret = <<>>
    /\ arg \in [a : 1..100, b : 1..100]
    /\ ret' = << [a |-> tierForPR(N(arg.a)), b |-> tierForPR(N(arg.b))] >>
    /\ UNCHANGED <<arg, prog, items, wrote, req, res>>

NextTier == Tier

SpecTier == InitTier /\ [][NextTier]_vars

---------------------------------------------------------------------------
(* Title derivation.  A text is a string held as its characters; a title   *)
(* or transcript that is missing is Undefined.                             *)

Text(cs) == [t |-> "string", cs |-> cs]

\* s || "" for a text or a missing value
TextOrEmpty(s) == IF s.t = "string" THEN s.cs ELSE <<>>

Untitled == <<"(", "u", "n", "t", "i", "t", "l", "e", "d", ")">>

\* mutant: the result not cut to 80 characters
makeTitle_uncut(title, transcript) ==
    LET raw == IF Len(TextOrEmpty(title)) > 0 /\ Len(Trim(title.cs)) > 0
               THEN Trim(title.cs)
               ELSE Trim(TextOrEmpty(transcript))
    IN  IF raw = <<>> THEN Untitled ELSE Collapse(raw)

\* part_000
makeTitle(title, transcript) ==
    LET raw == IF Len(TextOrEmpty(title)) > 0 /\ Len(Trim(title.cs)) > 0
               THEN Trim(title.cs)
               ELSE Trim(TextOrEmpty(transcript))
    IN  IF raw = <<>> THEN Untitled ELSE Slice(Collapse(raw), 80)

\* part_000: makeTitle(title, transcript) of two values of a request body
safeTitle(title, transcript) ==
    LET AsText(v) == IF v.t = "string" THEN Text(Chars[v.v]) ELSE Undefined
    IN  Str(FromChars(makeTitle(AsText(title), AsText(transcript))))

\* index.js (pg variant); tidy on the characters
deriveTitle(row) ==
    LET t  == Collapse(Trim(TextOrEmpty(row.title)))
        tr == Collapse(Trim(TextOrEmpty(row.transcript)))
    IN  IF t # <<>> THEN t
        ELSE IF tr # <<>> THEN Slice(tr, 80)
        ELSE Untitled

---------------------------------------------------------------------------
(* Specification SpecTitle: the two title derivations applied to short     *)
(* texts of letters and whitespace and to texts around 80 characters.      *)

MaxShort == 3

\* n characters, every seventh a space, after the prefix pre
Long(pre, n) == pre \o [i \in 1..n |-> IF i % 7 = 0 THEN " " ELSE "a"]

Texts ==
    {Undefined}
        \cup {Text(cs) : cs \in UNION {[1..n -> {"a", " ", "\n"}] : n \in 0..MaxShort}}
        \cup {Text(Long(pre, n)) : pre \in {<<>>, <<" ">>, <<"a", " ", "\n">>},
                                   n \in {76, 79, 80, 81, 90}}

InitTitle ==
    /\ arg \in [title : Texts, transcript : Texts]
    /\ ret = <<>>
    /\ Idle

MakeTitle ==
    /\ prog = "none"
    /\ ret = <<>>
    /\ arg \in [title : Texts, transcript : Texts]
    /\ ret' = << [by |-> "makeTitle", title |-> makeTitle(arg.title, arg.transcript)] >>
    /\ UNCHANGED <<arg, prog, items, wrote, req, res>>

DeriveTitle ==
    /\ prog = "none"
    /\ ret = <<>>
    /\ arg \in [title : Texts, transcript : Texts]
    /\ ret' = << [by |-> "deriveTitle", title |-> deriveTitle(arg)] >>
    /\ UNCHANGED <<arg, prog, items, wrote, req, res>>

NextTitle == MakeTitle \/ DeriveTitle

SpecTitle == InitTitle /\ [][NextTitle]_vars

---------------------------------------------------------------------------
(* The items table and the requests                                        *)

\* the most rows the table holds in the model
MaxItems == 1

FieldOrder == <<"customer_impact", "team_energy", "frequency", "ease">>

ResultFields == {"priority_rank", "action_tier", "leader_to_unblock"}

\* the decimal digit of a stage number, as a template literal writes it
StageDigit == <<"1", "2", "3", "4", "5", "6", "7", "8", "9">>

\* `stage_${stageNum}_timestamp`
TimestampCol(n) == "stage_" \o StageDigit[n] \o "_timestamp"

\* part_004, POST /items/:id/stage
stageNames ==
    (3 :> "involve") @@ (4 :> "choose") @@ (5 :> "prepare") @@ (6 :> "act")
        @@ (7 :> "learn") @@ (8 :> "recognise")

\* `stage_${stageNum}_${stageNames[stageNum]}`
NoteCol(n) == "stage_" \o StageDigit[n] \o "_" \o stageNames[n]

\* index.js, POST /api/items/:id/stage
fieldMap ==
    (1 :> "stage_1_capture") @@ (3 :> "stage_3_involve") @@ (4 :> "stage_4_choose")
        @@ (5 :> "stage_5_prepare") @@ (6 :> "stage_6_act") @@ (7 :> "stage_7_learn")
        @@ (8 :> "stage_8_recognise") @@ (9 :> "stage_9_share_story")

Cols ==
    RatingFields \cup ResultFields
        \cup {"updated_at", "stage", "impact", "energy", "rank", "stage_9_share"}
        \cup {"title", "transcript"}
        \cup {TimestampCol(n) : n \in 1..9}
        \cup {NoteCol(n) : n \in 3..8}
        \cup {fieldMap[n] : n \in DOMAIN fieldMap}

\* a row of which no column was given a value
EmptyRow == [c \in Cols |-> Null]

\* new Date().toISOString()
Now == Str("now")

\* what a row holds once the payload is written over it: the payload travels
\* as JSON, which drops the keys whose value is undefined and writes NaN as
\* null
Stored(row, payload) ==
    [c \in Cols |->
        IF c \in DOMAIN payload /\ payload[c] # Undefined
        THEN (IF payload[c] = NaN THEN Null ELSE payload[c])
        ELSE row[c]]

Exists(id) == id \in 1..Len(items)

Reply(status, error) == res' = [status |-> status, error |-> error]

\* insert(payload): the row is added, or the database reports an error
Insert(payload, created, failed) ==
    \/ /\ items' = Append(items, Stored(EmptyRow, payload))
       /\ wrote' = Append(wrote, req)
       /\ Reply(created, "")
    \/ /\ UNCHANGED <<items, wrote>>
       /\ Reply(500, failed)

\* update(patch).eq("id", id), and the pg update ... where id = $n: no row
\* with that id is not an error
Update(id, patch, failed) ==
    \/ /\ IF Exists(id)
          THEN /\ items' = [items EXCEPT ![id] = Stored(items[id], patch)]
               /\ wrote' = [wrote EXCEPT ![id] = req]
          ELSE UNCHANGED <<items, wrote>>
       /\ Reply(200, "")
    \/ /\ UNCHANGED <<items, wrote>>
       /\ Reply(500, failed)

\* update(patch).eq("id", id).select().single(): no row with that id is an
\* error
UpdateSingle(id, patch, failed) ==
    \/ /\ Exists(id)
       /\ items' = [items EXCEPT ![id] = Stored(items[id], patch)]
       /\ wrote' = [wrote EXCEPT ![id] = req]
       /\ Reply(200, "")
    \/ /\ UNCHANGED <<items, wrote>>
       /\ Reply(500, failed)

\* the handler has answered
Done == req' = NoReq /\ UNCHANGED <<arg, ret, prog>>

\* the rating sets requests carry
ValidTuples == {<<5, 9, 5, 3>>, <<8, 8, 9, 9>>, <<2, 7, 10, 10>>}

\* what a request can carry in place of a rating: nothing, a word, a numeric
\* string, 2.5, 0 and 11
Replacements == {Undefined, Str("abc"), Str("7"), Num(5), Num(0), Num(N(11))}

Body(t) ==
    [customer_impact |-> Num(N(t[1])), team_energy |-> Num(N(t[2])),
     frequency |-> Num(N(t[3])), ease |-> Num(N(t[4]))]

EmptyBody == [f \in RatingFields |-> Undefined]

OneReplaced ==
    {[Body(<<5, 9, 5, 3>>) EXCEPT ![f] = r] : f \in RatingFields, r \in Replacements}

RatingBodies == {Body(t) : t \in ValidTuples} \cup OneReplaced \cup {EmptyBody}

WithTranscript(b) == b @@ [transcript |-> Str("idea")]

CreatingOps == {"new", "create"}

Routes(p) ==
    CASE p = "part_000" -> {"new", "factors"}
      [] p = "part_007" -> {"new", "factors"}
      [] p = "part_014" -> {"new", "factors"}
      [] p = "part_004" -> {"create"}
      [] p = "part_001" -> {"factors"}
      [] p = "part_012" -> {"factors"}
      [] p = "index_pg" -> {"factors"}
      [] p = "part_014b" -> {"rank"}
      [] p = "index_sb" -> {"create", "ratings"}
      [] OTHER          -> {}

\* the result fields a client can send along with the ratings
ResultBodies ==
    {Body(t) @@ [priority_rank |-> p, action_tier |-> a, leader_to_unblock |-> l] :
        t \in ValidTuples,
        p \in {Undefined, Num(N(28))},
        a \in {Undefined, Str("Make it happen"), Str(" Park  for later ")},
        l \in {Undefined, Bool(TRUE)}}

\* the body keys of POST /api/items/:id/rank
Sliders(b) ==
    [impact |-> b.customer_impact, energy |-> b.team_energy,
     frequency |-> b.frequency, ease |-> b.ease]

BodiesOf(p, o) ==
    CASE p = "part_000" /\ o = "new" ->
            {WithTranscript(b) : b \in RatingBodies}
                \cup {EmptyBody, Body(<<5, 9, 5, 3>>)}
      [] p \in {"part_001", "part_012", "index_pg"} ->
            ResultBodies \cup OneReplaced \cup {EmptyBody}
      [] p = "part_014b" -> {Sliders(b) : b \in RatingBodies}
      [] OTHER -> RatingBodies

Requests ==
    UNION {
        IF o \in CreatingOps
        THEN (IF Len(items) < MaxItems
              THEN {[op |-> o, id |-> 0, body |-> b] : b \in BodiesOf(prog, o)}
              ELSE {})
        ELSE {[op |-> o, id |-> i, body |-> b] :
                  i \in 1..MaxItems, b \in BodiesOf(prog, o)}
        : o \in Routes(prog)}

\* a request arrives
Receive ==
    /\ prog # "none"
    /\ req = NoReq
    /\ req' \in Requests
    /\ res' = NoRes
    /\ UNCHANGED <<arg, ret, prog, items, wrote>>

Handling(p, o) == prog = p /\ req.op = o

\* the first field, in the order the handler walks them, that fails the test
FirstBad(bad) == FieldOrder[CHOOSE i \in bad : \A j \in bad : i <= j]

---------------------------------------------------------------------------
(* part_000                                                                *)

\* POST /items/new
New000 ==
    /\ Handling("part_000", "new")
    /\ LET b  == req.body
           ci == num1to10(Get(b, "customer_impact"))
           te == num1to10(Get(b, "team_energy"))
           fr == num1to10(Get(b, "frequency"))
           ea == num1to10(Get(b, "ease"))
       IN  IF ~Truthy(Get(b, "transcript")) /\ ~Truthy(Get(b, "title"))
           THEN /\ Reply(400, "Provide title or transcript.")
                /\ UNCHANGED <<items, wrote>>
           ELSE IF Null \in {ci, te, fr, ea}
           THEN /\ Reply(400, "All four factors must be 1..10.")
                /\ UNCHANGED <<items, wrote>>
           ELSE LET pr == computePriorityRank(ci.x2, te.x2, fr.x2, ea.x2)
                IN  Insert([title             |->
                                safeTitle(Get(b, "title"), Get(b, "transcript")),
                            transcript        |-> OrElse(Get(b, "transcript"), Null),
                            customer_impact   |-> ci,
                            team_energy       |-> te,
                            frequency         |-> fr,
                            ease              |-> ea,
                            priority_rank     |-> Num(pr),
                            action_tier       |-> Str(tierForPR(pr)),
                            leader_to_unblock |->
                                Bool(shouldLeaderUnblock(te.x2, ea.x2))],
                           200, "db_error")
    /\ Done

\* mutant: the update leaves the stored result as it was
Factors000_stale ==
    /\ Handling("part_000", "factors")
    /\ LET b  == req.body
           ci == num1to10(Get(b, "customer_impact"))
           te == num1to10(Get(b, "team_energy"))
           fr == num1to10(Get(b, "frequency"))
           ea == num1to10(Get(b, "ease"))
       IN  IF Null \in {ci, te, fr, ea}
           THEN /\ Reply(400, "All four factors must be 1..10.")
                /\ UNCHANGED <<items, wrote>>
           ELSE Update(req.id,
                       [title             |->
                            safeTitle(Get(b, "title"), Get(b, "transcript")),
                        transcript        |-> OrElse(Get(b, "transcript"), Null),
                        customer_impact   |-> ci,
                        team_energy       |-> te,
                        frequency         |-> fr,
                        ease              |-> ea,
                        updated_at        |-> Now],
                       "db_error")
    /\ Done

\* POST /items/:id/factors
Factors000 ==
    /\ Handling("part_000", "factors")
    /\ LET b  == req.body
           ci == num1to10(Get(b, "customer_impact"))
           te == num1to10(Get(b, "team_energy"))
           fr == num1to10(Get(b, "frequency"))
           ea == num1to10(Get(b, "ease"))
       IN  IF Null \in {ci, te, fr, ea}
           THEN /\ Reply(400, "All four factors must be 1..10.")
                /\ UNCHANGED <<items, wrote>>
           ELSE LET pr == computePriorityRank(ci.x2, te.x2, fr.x2, ea.x2)
                IN  Update(req.id,
                           [title             |->
                                safeTitle(Get(b, "title"), Get(b, "transcript")),
                            transcript        |-> OrElse(Get(b, "transcript"), Null),
                            customer_impact   |-> ci,
                            team_energy       |-> te,
                            frequency         |-> fr,
                            ease              |-> ea,
                            priority_rank     |-> Num(pr),
                            action_tier       |-> Str(tierForPR(pr)),
                            leader_to_unblock |->
                                Bool(shouldLeaderUnblock(te.x2, ea.x2)),
                            updated_at        |-> Now],
                           "db_error")
    /\ Done

---------------------------------------------------------------------------
(* part_007, first variant                                                 *)

\* POST /items/new
New007 ==
    /\ Handling("part_007", "new")
    /\ LET b  == req.body
           v  == [f \in RatingFields |-> numOrNull(Get(b, f))]
           allHave == \A f \in RatingFields : finite1to10(v[f])
           pr == computePriorityRank(v.customer_impact.x2, v.team_energy.x2,
                                     v.frequency.x2, v.ease.x2)
       IN  Insert([customer_impact   |-> v.customer_impact,
                   team_energy       |-> v.team_energy,
                   frequency         |-> v.frequency,
                   ease              |-> v.ease,
                   priority_rank     |-> IF allHave THEN Num(pr) ELSE Null,
                   action_tier       |->
                       IF allHave THEN Str(tierForPR(pr)) ELSE Null,
                   leader_to_unblock |->
                       IF allHave
                       THEN Bool(shouldLeaderUnblock(v.team_energy.x2, v.ease.x2))
                       ELSE Null],
                  201, "db_error")
    /\ Done

\* POST /items/:id/factors
Factors007 ==
    /\ Handling("part_007", "factors")
    /\ LET b   == req.body
           v   == [f \in RatingFields |-> numOrNull(Get(b, f))]
           bad == {i \in 1..4 : ~finite1to10(v[FieldOrder[i]])}
       IN  IF bad # {}
           THEN /\ Reply(400, "Invalid " \o FirstBad(bad) \o ": must be number 1..10")
                /\ UNCHANGED <<items, wrote>>
           ELSE LET pr == computePriorityRank(v.customer_impact.x2, v.team_energy.x2,
                                              v.frequency.x2, v.ease.x2)
                IN  Update(req.id,
                           [customer_impact   |-> v.customer_impact,
                            team_energy       |-> v.team_energy,
                            frequency         |-> v.frequency,
                            ease              |-> v.ease,
                            priority_rank     |-> Num(pr),
                            action_tier       |-> Str(tierForPR(pr)),
                            leader_to_unblock |->
                                Bool(shouldLeaderUnblock(v.team_energy.x2, v.ease.x2)),
                            updated_at        |-> Now],
                           "db_error")
    /\ Done

---------------------------------------------------------------------------
(* part_014, first variant                                                 *)

\* POST /items/new
New014 ==
    /\ Handling("part_014", "new")
    /\ LET b  == req.body
           v  == [f \in RatingFields |-> Get(b, f)]
           hasAllFour == \A f \in RatingFields : looksLike1to10(v[f])
           pr == computePriorityRank(v.customer_impact.x2, v.team_energy.x2,
                                     v.frequency.x2, v.ease.x2)
       IN  Insert([customer_impact   |->
                       IF hasAllFour THEN v.customer_impact ELSE Null,
                   team_energy       |-> IF hasAllFour THEN v.team_energy ELSE Null,
                   frequency         |-> IF hasAllFour THEN v.frequency ELSE Null,
                   ease              |-> IF hasAllFour THEN v.ease ELSE Null,
                   priority_rank     |-> IF hasAllFour THEN Num(pr) ELSE Null,
                   action_tier       |->
                       IF hasAllFour THEN Str(tierForPR(pr)) ELSE Null,
                   leader_to_unblock |->
                       IF hasAllFour
                       THEN Bool(shouldLeaderUnblock(v.team_energy.x2, v.ease.x2))
                       ELSE Null],
                  200, "db_error")
    /\ Done

\* POST /items/:id/factors
Factors014 ==
    /\ Handling("part_014", "factors")
    /\ LET b   == req.body
           v   == [f \in RatingFields |-> Get(b, f)]
           bad == {i \in 1..4 : ~looksLike1to10(v[FieldOrder[i]])}
       IN  IF bad # {}
           THEN /\ Reply(400, "Invalid " \o FirstBad(bad) \o ": must be 1..10")
                /\ UNCHANGED <<items, wrote>>
           ELSE LET pr == computePriorityRank(v.customer_impact.x2, v.team_energy.x2,
                                              v.frequency.x2, v.ease.x2)
                IN  Update(req.id,
                           [customer_impact   |-> v.customer_impact,
                            team_energy       |-> v.team_energy,
                            frequency         |-> v.frequency,
                            ease              |-> v.ease,
                            priority_rank     |-> Num(pr),
                            action_tier       |-> Str(tierForPR(pr)),
                            leader_to_unblock |->
                                Bool(shouldLeaderUnblock(v.team_energy.x2, v.ease.x2)),
                            updated_at        |-> Now],
                           "db_error")
    /\ Done

---------------------------------------------------------------------------
(* part_004                                                                *)

\* POST /api/items
Create004 ==
    /\ Handling("part_004", "create")
    /\ LET b  == req.body
           ci == toNum(Get(b, "customer_impact"))
           te == toNum(Get(b, "team_energy"))
           fq == toNum(Get(b, "frequency"))
           ez == toNum(Get(b, "ease"))
           rated == Truthy(ci) /\ Truthy(te) /\ Truthy(fq) /\ Truthy(ez)
           pr == IF rated THEN computePriorityRank(ci.x2, te.x2, fq.x2, ez.x2)
                 ELSE 0
           tier == IF rated THEN tierForPR(pr) ELSE "Park for later"
           ltb == IF rated THEN shouldLeaderUnblock(te.x2, ez.x2) ELSE FALSE
           stage == IF rated THEN N(2) ELSE N(1)
       IN  Insert([priority_rank     |-> Num(pr),
                   action_tier       |-> Str(tier),
                   customer_impact   |-> ci,
                   team_energy       |-> te,
                   frequency         |-> fq,
                   ease              |-> ez,
                   leader_to_unblock |-> Bool(ltb),
                   stage             |-> Num(stage),
                   stage_1_timestamp |-> Now,
                   stage_2_timestamp |-> IF stage = N(2) THEN Now ELSE Null],
                  201, "add_failed")
    /\ Done

\* Factors004 with the stage advanced on every rating
Factors004_always ==
    /\ Handling("part_004", "factors")
    /\ LET b  == req.body
           ci == toNum(Get(b, "customer_impact"))
           te == toNum(Get(b, "team_energy"))
           fq == toNum(Get(b, "frequency"))
           ez == toNum(Get(b, "ease"))
       IN  IF ~Truthy(ci) \/ ~Truthy(te) \/ ~Truthy(fq) \/ ~Truthy(ez)
           THEN /\ Reply(400, "all_factors_required")
                /\ UNCHANGED <<items, wrote>>
           ELSE LET pr == computePriorityRank(ci.x2, te.x2, fq.x2, ez.x2)
                    first == Exists(req.id)
                    patch == [customer_impact   |-> ci,
                              team_energy       |-> te,
                              frequency         |-> fq,
                              ease              |-> ez,
                              priority_rank     |-> Num(pr),
                              action_tier       |-> Str(tierForPR(pr)),
                              leader_to_unblock |->
                                  Bool(shouldLeaderUnblock(te.x2, ez.x2))]
                IN  Update(req.id,
                           IF first
                           THEN patch @@ [stage |-> Num(N(2)),
                                          stage_2_timestamp |-> Now]
                           ELSE patch,
                           "save_failed")
    /\ Done

\* POST /items/:id/factors (req.params.id is never empty on this route)
Factors004 ==
    /\ Handling("part_004", "factors")
    /\ LET b  == req.body
           ci == toNum(Get(b, "customer_impact"))
           te == toNum(Get(b, "team_energy"))
           fq == toNum(Get(b, "frequency"))
           ez == toNum(Get(b, "ease"))
       IN  IF ~Truthy(ci) \/ ~Truthy(te) \/ ~Truthy(fq) \/ ~Truthy(ez)
           THEN /\ Reply(400, "all_factors_required")
                /\ UNCHANGED <<items, wrote>>
           ELSE LET pr == computePriorityRank(ci.x2, te.x2, fq.x2, ez.x2)
                    first == /\ Exists(req.id)
                             /\ items[req.id].stage = Num(N(1))
                             /\ ~Truthy(items[req.id].stage_2_timestamp)
                    patch == [customer_impact   |-> ci,
                              team_energy       |-> te,
                              frequency         |-> fq,
                              ease              |-> ez,
                              priority_rank     |-> Num(pr),
                              action_tier       |-> Str(tierForPR(pr)),
                              leader_to_unblock |->
                                  Bool(shouldLeaderUnblock(te.x2, ez.x2))]
                IN  Update(req.id,
                           IF first
                           THEN patch @@ [stage |-> Num(N(2)),
                                          stage_2_timestamp |-> Now]
                           ELSE patch,
                           "save_failed")
    /\ Done

\* POST /items/:id/stage: parseInt(stage)
stageNum004(body) == parseInt(Get(body, "stage"))

\* !(isNaN(stageNum) || stageNum < 1 || stageNum > 9)
ValidStage004(body) ==
    /\ IsFinite(stageNum004(body))
    /\ stageNum004(body).x2 >= N(1)
    /\ stageNum004(body).x2 <= N(9)

\* the patch of a stage request
StagePatch004(body) ==
    LET note  == Get(body, "note")
        n     == stageNum004(body).x2 \div 2
        stamp == [stage |-> stageNum004(body)] @@ (TimestampCol(n) :> Now)
        notes ==
            IF n >= 3 /\ n <= 8 /\ Truthy(note)
            THEN (NoteCol(n) :> Str(clean(note)))
            ELSE IF n = 9 /\ Truthy(note)
            THEN [stage_9_share |-> Str(clean(note))]
            ELSE <<>>
    IN  stamp @@ notes

\* POST /items/:id/stage
Stage004 ==
    /\ Handling("part_004", "stage")
    /\ IF ~ValidStage004(req.body)
       THEN /\ Reply(400, "invalid_stage")
            /\ UNCHANGED <<items, wrote>>
       ELSE Update(req.id, StagePatch004(req.body), "stage_update_failed")
    /\ Done

\* POST /items/:id/factors up to the answer of the select: the handler
\* keeps the row it read and waits for the update
FactorsRead004 ==
    /\ Handling("part_004", "factors")
    /\ arg = <<>>
    /\ LET b  == req.body
           ci == toNum(Get(b, "customer_impact"))
           te == toNum(Get(b, "team_energy"))
           fq == toNum(Get(b, "frequency"))
           ez == toNum(Get(b, "ease"))
       IN  IF ~Truthy(ci) \/ ~Truthy(te) \/ ~Truthy(fq) \/ ~Truthy(ez)
           THEN /\ Reply(400, "all_factors_required")
                /\ req' = NoReq
                /\ arg' = [pc |-> "done", current |-> Null]
           ELSE /\ arg' = [pc |-> "write",
                           current |->
                               IF Exists(req.id)
                               THEN [stage |-> items[req.id].stage,
                                     stage_2_timestamp |->
                                         items[req.id].stage_2_timestamp]
                               ELSE Null]
                /\ UNCHANGED <<req, res>>
    /\ UNCHANGED <<ret, prog, items, wrote>>

\* POST /items/:id/factors from the answer of the select on: the patch is
\* built from the row read earlier and sent
FactorsWrite004 ==
    /\ Handling("part_004", "factors")
    /\ arg # <<>>
    /\ arg.pc = "write"
    /\ LET b  == req.body
           ci == toNum(Get(b, "customer_impact"))
           te == toNum(Get(b, "team_energy"))
           fq == toNum(Get(b, "frequency"))
           ez == toNum(Get(b, "ease"))
           pr == computePriorityRank(ci.x2, te.x2, fq.x2, ez.x2)
           current == arg.current
           first == /\ current # Null
                    /\ current.stage = Num(N(1))
                    /\ ~Truthy(current.stage_2_timestamp)
           patch == [customer_impact   |-> ci,
                     team_energy       |-> te,
                     frequency         |-> fq,
                     ease              |-> ez,
                     priority_rank     |-> Num(pr),
                     action_tier       |-> Str(tierForPR(pr)),
                     leader_to_unblock |->
                         Bool(shouldLeaderUnblock(te.x2, ez.x2))]
       IN  Update(req.id,
                  IF first
                  THEN patch @@ [stage |-> Num(N(2)), stage_2_timestamp |-> Now]
                  ELSE patch,
                  "save_failed")
    /\ req' = NoReq
    /\ arg' = [arg EXCEPT !.pc = "done"]
    /\ UNCHANGED <<ret, prog>>

---------------------------------------------------------------------------
(* Specification SpecFactors: the variants that compute the result on the  *)
(* server                                                                  *)

InitFactors ==
    /\ prog \in {"part_000", "part_007", "part_014", "part_004"}
    /\ arg = <<>>
    /\ ret = <<>>
    /\ items = <<>>
    /\ wrote = <<>>
    /\ req = NoReq
    /\ res = NoRes

NextFactors ==
    \/ Receive
    \/ New000 \/ Factors000
    \/ New007 \/ Factors007
    \/ New014 \/ Factors014
    \/ Create004

SpecFactors == InitFactors /\ [][NextFactors]_vars

---------------------------------------------------------------------------
(* part_001 (pg)                                                           *)

\* POST /items/:id/factors
Factors001 ==
    /\ Handling("part_001", "factors")
    /\ LET b == req.body
       IN  Update(req.id,
                  [customer_impact   |-> Coalesce(Get(b, "customer_impact"), Null),
                   team_energy       |-> Coalesce(Get(b, "team_energy"), Null),
                   frequency         |-> Coalesce(Get(b, "frequency"), Null),
                   ease              |-> Coalesce(Get(b, "ease"), Null),
                   priority_rank     |-> Coalesce(Get(b, "priority_rank"), Null),
                   action_tier       |-> Coalesce(Get(b, "action_tier"), Null),
                   leader_to_unblock |->
                       Coalesce(Get(b, "leader_to_unblock"), Bool(FALSE))],
                  "factors_failed")
    /\ Done

---------------------------------------------------------------------------
(* part_012                                                                *)

\* POST /items/:id/factors
Factors012 ==
    /\ Handling("part_012", "factors")
    /\ LET b == req.body
       IN  Update(req.id,
                  [customer_impact   |-> clamp10(Get(b, "customer_impact")),
                   team_energy       |-> clamp10(Get(b, "team_energy")),
                   frequency         |-> clamp10(Get(b, "frequency")),
                   ease              |-> clamp10(Get(b, "ease")),
                   priority_rank     |->
                       IF IsFinite(Number(Get(b, "priority_rank")))
                       THEN Number(Get(b, "priority_rank")) ELSE Null,
                   action_tier       |-> Coalesce(Get(b, "action_tier"), Null),
                   leader_to_unblock |-> Bool(Truthy(Get(b, "leader_to_unblock")))],
                  "factors_failed")
    /\ Done

---------------------------------------------------------------------------
(* index.js, pg variant                                                    *)

\* the strings of the model that tidy changes, with what it makes of them
Tidied == (" Park  for later " :> "Park for later")

\* (s || "").toString().trim().replace(/\s+/g, " ")
tidy(s) ==
    IF ~Truthy(s) THEN ""
    ELSE CASE s.t = "string"  -> IF s.v \in DOMAIN Tidied THEN Tidied[s.v] ELSE s.v
           [] s.t = "boolean" -> "true"

\* POST /items/:id/factors
FactorsPg ==
    /\ Handling("index_pg", "factors")
    /\ LET b  == req.body
           ci == safeInt(Get(b, "customer_impact"))
           te == safeInt(Get(b, "team_energy"))
           fr == safeInt(Get(b, "frequency"))
           ez == safeInt(Get(b, "ease"))
           leader_to_unblock == Bool(Truthy(Get(b, "leader_to_unblock")))
           action_tier ==
               IF tidy(Get(b, "action_tier")) = "" THEN Null
               ELSE Str(tidy(Get(b, "action_tier")))
           rank == Coalesce(ci, Num(0)).x2 + Coalesce(te, Num(0)).x2
                       + Coalesce(fr, Num(0)).x2 + Coalesce(ez, Num(0)).x2
       IN  Update(req.id,
                  [customer_impact   |-> ci,
                   team_energy       |-> te,
                   frequency         |-> fr,
                   ease              |-> ez,
                   priority_rank     |-> Num(rank),
                   action_tier       |-> action_tier,
                   leader_to_unblock |-> leader_to_unblock],
                  "save_factors_failed")
    /\ Done

---------------------------------------------------------------------------
(* part_014, second variant                                                *)

\* Math.round(sum / 4) of a sum of whole Numbers
RoundQuarter(sum2) == N((sum2 \div 2 + 2) \div 4)

\* POST /api/items/:id/rank
Rank014 ==
    /\ Handling("part_014b", "rank")
    /\ LET b         == req.body
           impact    == clamp(Get(b, "impact"))
           energy    == clamp(Get(b, "energy"))
           frequency == clamp(Get(b, "frequency"))
           ease      == clamp(Get(b, "ease"))
           avg == IF NaN \in {impact, energy, frequency, ease} THEN NaN
                  ELSE Num(RoundQuarter(impact.x2 + energy.x2
                                            + frequency.x2 + ease.x2))
       IN  UpdateSingle(req.id,
                        [impact        |-> impact,
                         energy        |-> energy,
                         frequency     |-> frequency,
                         ease          |-> ease,
                         rank          |-> avg,
                         priority_rank |-> avg],
                        "db_error")
    /\ Done

---------------------------------------------------------------------------
(* Specification SpecPass: the variants that store what the client sends   *)
(* or their own simpler rank.  The table holds one item that has not been  *)
(* rated yet.                                                              *)

InitPass ==
    /\ prog \in {"part_001", "part_012", "index_pg", "part_014b"}
    /\ arg = <<>>
    /\ ret = <<>>
    /\ items = <<EmptyRow>>
    /\ wrote = <<NoReq>>
    /\ req = NoReq
    /\ res = NoRes

NextPass ==
    \/ Receive
    \/ Factors001
    \/ Factors012
    \/ FactorsPg
    \/ Rank014

SpecPass == InitPass /\ [][NextPass]_vars

---------------------------------------------------------------------------
(* index.js, Supabase variant                                              *)

\* Number(x) || 0
NumberOrZero(x) == OrElse(Number(x), Num(0))

\* POST /api/items
CreateSb ==
    /\ Handling("index_sb", "create")
    /\ LET b  == req.body
           hasRatings == \A f \in RatingFields : Truthy(Get(b, f))
           ci == NumberOrZero(Get(b, "customer_impact"))
           te == NumberOrZero(Get(b, "team_energy"))
           fr == NumberOrZero(Get(b, "frequency"))
           ea == NumberOrZero(Get(b, "ease"))
           content ==
               OrElse(Get(b, "content"), OrElse(Get(b, "transcript"), Str("")))
           itemData ==
               [stage           |-> IF hasRatings THEN Num(N(3)) ELSE Num(N(1)),
                stage_1_capture |-> content] @@ b
           rated ==
               [priority_rank   |-> Num(computePriorityRank(ci.x2, te.x2, fr.x2, ea.x2)),
                customer_impact |-> ci,
                team_energy     |-> te,
                frequency       |-> fr,
                ease            |-> ea]
       IN  Insert(IF hasRatings THEN rated @@ itemData ELSE itemData,
                  201, "db_error")
    /\ Done

\* POST /api/items/:id/ratings
RatingsSb ==
    /\ Handling("index_sb", "ratings")
    /\ LET b  == req.body
           ci == NumberOrZero(Get(b, "customer_impact"))
           te == NumberOrZero(Get(b, "team_energy"))
           fr == NumberOrZero(Get(b, "frequency"))
           ea == NumberOrZero(Get(b, "ease"))
       IN  UpdateSingle(req.id,
                        [customer_impact |-> ci,
                         team_energy     |-> te,
                         frequency       |-> fr,
                         ease            |-> ea,
                         priority_rank   |->
                             Num(computePriorityRank(ci.x2, te.x2, fr.x2, ea.x2)),
                         stage           |-> Num(N(3))],
                        "db_error")
    /\ Done

\* x < k and x > k for a Number k: x is converted with Number, and NaN
\* compares false
Lt(x, k2) == IsFinite(Number(x)) /\ Number(x).x2 < k2
Gt(x, k2) == IsFinite(Number(x)) /\ Number(x).x2 > k2

\* x + 1: a Number is added to, a string is appended to
PlusOne(x) == IF x.t = "string" THEN Str(x.v \o "1") ELSE Num(x.x2 + N(1))

\* the property key a stage value reads fieldMap with: the whole number it
\* is written as, 0 when it is written as none
StageKey(x) ==
    IF x.t \in {"number", "string"} /\ IsFinite(Number(x)) /\ IsInteger(Number(x).x2)
    THEN Number(x).x2 \div 2 ELSE 0

\* mutant: the next stage is not capped at 9
StageSb_uncapped ==
    /\ Handling("index_sb", "stage")
    /\ LET stage == Get(req.body, "stage")
           note  == Get(req.body, "note")
       IN  IF ~Truthy(stage) \/ Lt(stage, N(1)) \/ Gt(stage, N(9))
           THEN /\ Reply(400, "Invalid stage number")
                /\ UNCHANGED <<items, wrote>>
           ELSE IF StageKey(stage) \notin DOMAIN fieldMap
           THEN /\ Reply(400, "Invalid stage for note saving")
                /\ UNCHANGED <<items, wrote>>
           ELSE UpdateSingle(req.id,
                             (fieldMap[StageKey(stage)] :> note)
                                 @@ [stage |-> PlusOne(stage)],
                             "db_error")
    /\ Done

\* POST /api/items/:id/stage
StageSb ==
    /\ Handling("index_sb", "stage")
    /\ LET stage == Get(req.body, "stage")
           note  == Get(req.body, "note")
       IN  IF ~Truthy(stage) \/ Lt(stage, N(1)) \/ Gt(stage, N(9))
           THEN /\ Reply(400, "Invalid stage number")
                /\ UNCHANGED <<items, wrote>>
           ELSE IF StageKey(stage) \notin DOMAIN fieldMap
           THEN /\ Reply(400, "Invalid stage for note saving")
                /\ UNCHANGED <<items, wrote>>
           ELSE LET nextStage ==
                        IF Lt(stage, N(9)) THEN PlusOne(stage) ELSE Num(N(9))
                IN  UpdateSingle(req.id,
                                 (fieldMap[StageKey(stage)] :> note)
                                     @@ [stage |-> nextStage],
                                 "db_error")
    /\ Done

---------------------------------------------------------------------------
(* Specification SpecSupabase: index.js, Supabase variant                  *)

InitSupabase ==
    /\ prog = "index_sb"
    /\ arg = <<>>
    /\ ret = <<>>
    /\ items = <<>>
    /\ wrote = <<>>
    /\ req = NoReq
    /\ res = NoRes

NextSupabase ==
    \/ Receive
    \/ CreateSb
    \/ RatingsSb

SpecSupabase == InitSupabase /\ [][NextSupabase]_vars

---------------------------------------------------------------------------
(* Specification SpecStage: the lifecycle of one item in the Supabase      *)
(* variant of index.js and in part_004                                     *)

\* the stage a stage request names: every stage, and values that are none
StageBodies ==
    {[stage |-> Num(N(n)), note |-> Str("note")] : n \in 1..9}
        \cup {[stage |-> v, note |-> Str(" note ")] :
                 v \in {Undefined, Num(0), Num(N(10)), Num(5), Str("3")}}
        \cup {[stage |-> Num(N(n)), note |-> Undefined] : n \in {1, 3}}

StageRatingBodies == {EmptyBody, Body(<<5, 9, 5, 3>>)}

StageRequests ==
    (IF items = <<>>
     THEN {[op |-> "create", id |-> 0, body |-> b] :
              b \in {EmptyBody, WithTranscript(Body(<<5, 9, 5, 3>>))}}
     ELSE {})
    \cup {[op |-> IF prog = "index_sb" THEN "ratings" ELSE "factors",
           id |-> i, body |-> b] : i \in 1..2, b \in StageRatingBodies}
    \cup {[op |-> "stage", id |-> i, body |-> b] : i \in 1..2, b \in StageBodies}

\* a request about the item arrives
ReceiveStage ==
    /\ prog \in {"index_sb", "part_004"}
    /\ req = NoReq
    /\ req' \in StageRequests
    /\ res' = NoRes
    /\ UNCHANGED <<arg, ret, prog, items, wrote>>

InitStage ==
    /\ prog \in {"index_sb", "part_004"}
    /\ arg = <<>>
    /\ ret = <<>>
    /\ items = <<>>
    /\ wrote = <<>>
    /\ req = NoReq
    /\ res = NoRes

NextStage ==
    \/ ReceiveStage
    \/ CreateSb \/ RatingsSb \/ StageSb
    \/ Create004 \/ Factors004 \/ Stage004

SpecStage == InitStage /\ [][NextStage]_vars

---------------------------------------------------------------------------
(* Specification SpecRace: a factors request of part_004 and a stage       *)
(* request for the same item, the steps of the two handlers interleaved    *)

RaceRequests ==
    IF items = <<>>
    THEN {[op |-> "create", id |-> 0, body |-> b] :
             b \in {EmptyBody, WithTranscript(Body(<<5, 9, 5, 3>>))}}
    ELSE {[op |-> "factors", id |-> i, body |-> b] :
             i \in 1..2, b \in StageRatingBodies}

\* the bodies of the stage request that runs beside the factors request
RaceStageBodies ==
    {[stage |-> Num(N(n)), note |-> Str(" note ")] : n \in {1, 2, 3, 9}}
        \cup {[stage |-> Undefined, note |-> Undefined]}

\* POST /items/:id/stage, handled while a factors request is in progress;
\* ret keeps the request and its answer
StageDuring004 ==
    /\ prog = "part_004"
    /\ req # NoReq
    /\ req.op = "factors"
    /\ ret = <<>>
    /\ \E b \in RaceStageBodies :
         LET r == [op |-> "stage", id |-> req.id, body |-> b]
         IN  IF ~ValidStage004(b)
             THEN /\ ret' = [request |-> r, status |-> 400]
                  /\ UNCHANGED <<items, wrote>>
             ELSE \/ /\ IF Exists(r.id)
                        THEN /\ items' = [items EXCEPT ![r.id] =
                                             Stored(items[r.id], StagePatch004(b))]
                             /\ wrote' = [wrote EXCEPT ![r.id] = r]
                        ELSE UNCHANGED <<items, wrote>>
                     /\ ret' = [request |-> r, status |-> 200]
                  \/ /\ UNCHANGED <<items, wrote>>
                     /\ ret' = [request |-> r, status |-> 500]
    /\ UNCHANGED <<arg, prog, req, res>>

ReceiveRace ==
    /\ prog = "part_004"
    /\ req = NoReq
    /\ req' \in RaceRequests
    /\ res' = NoRes
    /\ arg' = <<>>
    /\ ret' = <<>>
    /\ UNCHANGED <<prog, items, wrote>>

InitRace ==
    /\ prog = "part_004"
    /\ arg = <<>>
    /\ ret = <<>>
    /\ items = <<>>
    /\ wrote = <<>>
    /\ req = NoReq
    /\ res = NoRes

NextRace ==
    \/ ReceiveRace
    \/ Create004
    \/ FactorsRead004
    \/ StageDuring004
    \/ FactorsWrite004

SpecRace == InitRace /\ [][NextRace]_vars

---------------------------------------------------------------------------
(* The update routes of part_016 and part_008                              *)

\* part_008
coerceNum(x, min, max) ==
    IF x.t \in {"null", "undefined"} \/ x = Str("") THEN Null
    ELSE LET n == Number(x)
         IN  IF n = NaN THEN Null ELSE Num(Max(min, Min(max, n.x2)))

\* The answers of the database to an update.  An unknown column is reported
\* with code 42703 and a message, held as its words and the characters
\* between them, in one of the forms PostgreSQL and PostgREST use.
ColumnMessages(c) ==
    {<<"column", " ", "\"", c, "\"", " ", "of", " ", "relation", " ", "\"", "items", "\"",
       " ", "does", " ", "not", " ", "exist">>,
     <<"column", " ", "items", ".", c, " ", "does", " ", "not", " ", "exist">>,
     <<"column", " ", "\"", c, "\"", " ", "does", " ", "not", " ", "exist">>,
     <<"column", " ", c, " ", "does", " ", "not", " ", "exist">>}

Answers(payload) ==
    {[code |-> k, column |-> "", message |-> <<>>] : k \in {"", "XX000"}}
        \cup UNION {{[code |-> "42703", column |-> c, message |-> m] :
                        m \in ColumnMessages(c)} : c \in DOMAIN payload \cup {"id"}}

\* \w+ takes a whole word of a message
IsWord(tok) == tok \notin {" ", "\"", "."}

\* part_016: m[1] of
\* /column\s+(?:\w+\.)?"?([\w_]+)"?\s+does not exist/i.exec(message), "" for
\* no match
Match016(m) ==
    LET At(g, q1, q2) ==
            LET n == 3 + 2 * g + q1
            IN  /\ Len(m) = n + q2 + 6
                /\ m[1] = "column" /\ m[2] = " "
                /\ g = 1 => IsWord(m[3]) /\ m[4] = "."
                /\ q1 = 1 => m[n - 1] = "\""
                /\ IsWord(m[n])
                /\ q2 = 1 => m[n + 1] = "\""
                /\ SubSeq(m, n + q2 + 1, n + q2 + 6)
                      = <<" ", "does", " ", "not", " ", "exist">>
        found == {t \in {0, 1} \X {0, 1} \X {0, 1} : At(t[1], t[2], t[3])}
    IN  IF found = {} THEN ""
        ELSE LET t == CHOOSE t \in found : TRUE IN m[3 + 2 * t[1] + t[2]]

\* the call has not been made or has returned
NoCall == <<>>

\* part_016: handleUpdate up to the call of safeUpdateItem, and in it the
\* remapping of leader_to_unlock and the removal of the undefined keys.
\* Request id 0 is an id that is not a UUID.
Update016 ==
    /\ Handling("part_016", "update")
    /\ arg = NoCall
    /\ LET b == req.body
           numOrNull16(v) ==
               IF v.t \in {"null", "undefined"} \/ v = Str("") THEN Null
               ELSE Number(v)
           patch == [leader_to_unlock  |-> Get(b, "leader_to_unlock"),
                     leader_to_unblock |-> Get(b, "leader_to_unblock"),
                     action_tier       |-> Get(b, "action_tier"),
                     priority_rank     |-> numOrNull16(Get(b, "priority_rank")),
                     frequency         |-> numOrNull16(Get(b, "frequency")),
                     ease              |-> numOrNull16(Get(b, "ease")),
                     title             |-> Get(b, "title"),
                     transcript        |-> Get(b, "transcript")]
           mapped ==
               IF "leader_to_unlock" \in DOMAIN patch
                      /\ "leader_to_unblock" \notin DOMAIN patch
               THEN [k \in (DOMAIN patch \ {"leader_to_unlock"}) \cup {"leader_to_unblock"} |->
                        IF k = "leader_to_unblock" THEN patch.leader_to_unlock
                        ELSE patch[k]]
               ELSE patch
           kept == {k \in DOMAIN mapped : mapped[k] # Undefined}
       IN  IF req.id = 0
           THEN /\ Reply(400, "bad_id")
                /\ req' = NoReq
                /\ UNCHANGED arg
           ELSE /\ arg' = [pc |-> "loop", fields |-> [k \in kept |-> mapped[k]],
                           defined |-> Cardinality(kept), sent |-> <<>>,
                           answer |-> [code |-> "", column |-> "", name |-> ""]]
                /\ UNCHANGED <<req, res>>
    /\ UNCHANGED <<ret, prog, items, wrote>>

\* mutant: the column the database names stays in the payload
safeUpdateItem016_keep ==
    /\ prog = "part_016"
    /\ "pc" \in DOMAIN arg /\ arg.pc = "loop"
    /\ IF DOMAIN arg.fields = {}
       THEN /\ Reply(200, "")
            /\ req' = NoReq
            /\ arg' = [arg EXCEPT !.pc = "done"]
            /\ UNCHANGED <<items, wrote>>
       ELSE \E ans \in Answers(arg.fields) :
              LET sent == Append(arg.sent, Cardinality(DOMAIN arg.fields))
                  name == Match016(ans.message)
                  seen == [code |-> ans.code, column |-> ans.column, name |-> name]
              IN  IF ans.code = ""
                  THEN /\ IF Exists(req.id)
                          THEN /\ items' = [items EXCEPT
                                              ![req.id] = Stored(items[req.id], arg.fields)]
                               /\ wrote' = [wrote EXCEPT ![req.id] = req]
                          ELSE UNCHANGED <<items, wrote>>
                       /\ Reply(200, "")
                       /\ req' = NoReq
                       /\ arg' = [arg EXCEPT !.pc = "done", !.sent = sent, !.answer = seen]
                  ELSE IF ans.code = "42703" /\ name \in DOMAIN arg.fields
                  THEN /\ Len(sent) <= arg.defined + 1
                       /\ arg' = [arg EXCEPT !.sent = sent, !.answer = seen]
                       /\ UNCHANGED <<req, res, items, wrote>>
                  ELSE /\ Reply(500, "save_failed")
                       /\ req' = NoReq
                       /\ arg' = [arg EXCEPT !.pc = "done", !.sent = sent, !.answer = seen]
                       /\ UNCHANGED <<items, wrote>>
    /\ UNCHANGED <<ret, prog>>

\* part_016: one turn of the loop of safeUpdateItem, and what handleUpdate
\* answers when the loop returns.  arg.sent holds the number of columns of
\* each update sent so far, arg.answer the code of the last answer, the
\* column it is about and the column name found in its message.
safeUpdateItem016 ==
    /\ prog = "part_016"
    /\ "pc" \in DOMAIN arg /\ arg.pc = "loop"
    /\ IF DOMAIN arg.fields = {}
       THEN /\ Reply(200, "")
            /\ req' = NoReq
            /\ arg' = [arg EXCEPT !.pc = "done"]
            /\ UNCHANGED <<items, wrote>>
       ELSE \E ans \in Answers(arg.fields) :
              LET sent == Append(arg.sent, Cardinality(DOMAIN arg.fields))
                  name == Match016(ans.message)
                  seen == [code |-> ans.code, column |-> ans.column, name |-> name]
              IN  IF ans.code = ""
                  THEN /\ IF Exists(req.id)
                          THEN /\ items' = [items EXCEPT
                                              ![req.id] = Stored(items[req.id], arg.fields)]
                               /\ wrote' = [wrote EXCEPT ![req.id] = req]
                          ELSE UNCHANGED <<items, wrote>>
                       /\ Reply(200, "")
                       /\ req' = NoReq
                       /\ arg' = [arg EXCEPT !.pc = "done", !.sent = sent, !.answer = seen]
                  ELSE IF ans.code = "42703" /\ name \in DOMAIN arg.fields
                  THEN /\ arg' = [arg EXCEPT
                                    !.fields = [k \in DOMAIN arg.fields \ {name} |->
                                                   arg.fields[k]],
                                    !.sent = sent, !.answer = seen]
                       /\ UNCHANGED <<req, res, items, wrote>>
                  ELSE /\ Reply(500, "save_failed")
                       /\ req' = NoReq
                       /\ arg' = [arg EXCEPT !.pc = "done", !.sent = sent, !.answer = seen]
                       /\ UNCHANGED <<items, wrote>>
    /\ UNCHANGED <<ret, prog>>

\* part_008: the word /column\s+(\w+)/i finds in the message, "" for no match
Match008(m) ==
    LET found == {i \in 1..(Len(m) - 2) :
                     m[i] = "column" /\ m[i + 1] = " " /\ IsWord(m[i + 2])}
    IN  IF found = {} THEN ""
        ELSE m[(CHOOSE i \in found : \A j \in found : i <= j) + 2]

\* safeUpdateItem(id, patch) is called
Call008(patch) ==
    /\ arg = NoCall
    /\ arg' = [pc |-> "loop", payload |-> patch, sent |-> <<>>,
               answer |-> [code |-> "", column |-> "", name |-> ""], result |-> ""]
    /\ UNCHANGED <<ret, prog, items, wrote, req, res>>

\* part_008: PATCH /api/items/:id up to the call of safeUpdateItem
Patch008 ==
    /\ Handling("part_008", "patch")
    /\ LET patch == req.body
           title == Get(patch, "title")
           given == {k \in {"title", "priority_rank", "frequency", "ease", "team_energy",
                            "leader_to_unblock"} : Get(patch, k) # Undefined}
       IN  Call008([k \in given |->
                       CASE k = "title" ->
                               IF FromChars(Trim(Chars[OrElse(title, Str("")).v])) = ""
                               THEN Null
                               ELSE Str(FromChars(Trim(Chars[title.v])))
                         [] k = "priority_rank" ->
                               coerceNum(patch.priority_rank, -N(9999), N(9999))
                         [] k = "leader_to_unblock" ->
                               Bool(Truthy(patch.leader_to_unblock))
                         [] OTHER -> coerceNum(patch[k], 0, N(10))])

\* part_008: POST /api/items/:id/factors up to the call of safeUpdateItem
Factors008 ==
    /\ Handling("part_008", "factors")
    /\ LET b == req.body
           title == Get(b, "title")
           given == {"team_energy", "frequency", "ease"}
                        \cup {k \in {"title", "leader_to_unblock"} : Get(b, k) # Undefined}
       IN  Call008([k \in given |->
                       CASE k = "team_energy" ->
                               coerceNum(Coalesce(Get(b, "team_energy"),
                                                  Get(b, "teamEnergy")), 0, N(10))
                         [] k = "title" ->
                               IF FromChars(Trim(Chars[OrElse(title, Str("")).v])) = ""
                               THEN Null
                               ELSE Str(FromChars(Trim(Chars[title.v])))
                         [] k = "leader_to_unblock" ->
                               Bool(Truthy(b.leader_to_unblock))
                         [] OTHER -> coerceNum(Get(b, k), 0, N(10))])

\* part_008: safeUpdateItem from its first line, one turn of its loop at a
\* time, and what the route answers when it returns.  arg.sent holds the
\* number of columns of each update sent so far, arg.answer the code of the
\* last answer, the column it is about and the word found in its message.
safeUpdateItem008 ==
    /\ prog = "part_008"
    /\ "pc" \in DOMAIN arg /\ arg.pc = "loop"
    /\ IF arg.sent = <<>> /\ DOMAIN arg.payload = {}
       THEN /\ Reply(200, "")
            /\ arg' = [arg EXCEPT !.pc = "done", !.result = "null"]
            /\ UNCHANGED <<items, wrote>>
       ELSE IF Len(arg.sent) = 3
       THEN /\ Reply(500, "save_failed")
            /\ arg' = [arg EXCEPT !.pc = "done",
                                  !.result = "update_failed_after_retries"]
            /\ UNCHANGED <<items, wrote>>
       ELSE \E ans \in Answers(arg.payload) :
              LET sent == Append(arg.sent, Cardinality(DOMAIN arg.payload))
                  bad  == Match008(ans.message)
                  seen == [code |-> ans.code, column |-> ans.column, name |-> bad]
              IN  IF ans.code = ""
                  THEN /\ IF Exists(req.id)
                          THEN /\ items' = [items EXCEPT
                                              ![req.id] = Stored(items[req.id], arg.payload)]
                               /\ wrote' = [wrote EXCEPT ![req.id] = req]
                          ELSE UNCHANGED <<items, wrote>>
                       /\ Reply(200, "")
                       /\ arg' = [arg EXCEPT !.pc = "done", !.sent = sent, !.answer = seen,
                                             !.result = IF Exists(req.id) THEN "row"
                                                        ELSE "null"]
                  ELSE IF ans.code = "42703" /\ bad # ""
                  THEN /\ arg' = [arg EXCEPT
                                    !.payload = [k \in DOMAIN arg.payload \ {bad} |->
                                                    arg.payload[k]],
                                    !.sent = sent, !.answer = seen]
                       /\ UNCHANGED <<res, items, wrote>>
                  ELSE /\ Reply(500, "save_failed")
                       /\ arg' = [arg EXCEPT !.pc = "done", !.sent = sent, !.answer = seen,
                                             !.result = "error"]
                       /\ UNCHANGED <<items, wrote>>
    /\ req' = IF arg'.pc = "done" THEN NoReq ELSE req
    /\ UNCHANGED <<ret, prog>>

---------------------------------------------------------------------------
(* Specification SpecUpdate: update requests of part_016, part_008 and     *)
(* part_000 to a table that holds one item, created and rated earlier.     *)

UpdateBodies ==
    CASE prog = "part_016" ->
            [priority_rank     : {Undefined, Num(N(72))},
             leader_to_unlock  : {Undefined, Bool(FALSE)},
             leader_to_unblock : {Undefined, Bool(FALSE)}]
      [] prog = "part_008" ->
            [team_energy       : {Undefined, Num(N(11))},
             title             : {Undefined, Str(" note ")}]
      [] prog = "part_000" ->
            {r @@ [title |-> t, transcript |-> tr] :
                r \in {Body(<<8, 8, 9, 9>>), Body(<<2, 7, 10, 10>>), EmptyBody},
                t \in {Undefined, Str("note")},
                tr \in {Undefined, Str("idea")}}

\* a request arrives; a handler that has answered has left its call
ReceiveUpdate ==
    /\ req = NoReq
    /\ \E o \in (CASE prog = "part_016" -> {"update"}
                   [] prog = "part_008" -> {"factors", "patch"}
                   [] OTHER -> {"factors"}),
          i \in (IF prog = "part_016" THEN 0..2 ELSE 1..2),
          b \in UpdateBodies :
          req' = [op |-> o, id |-> i, body |-> b]
    /\ res' = NoRes
    /\ arg' = NoCall
    /\ UNCHANGED <<ret, prog, items, wrote>>

InitUpdate ==
    /\ prog \in {"part_016", "part_008", "part_000"}
    /\ items = << Stored(EmptyRow,
                         Body(<<5, 9, 5, 3>>)
                             @@ [title |-> Str("idea"), transcript |-> Str("note"),
                                 priority_rank |-> Num(N(38)),
                                 action_tier |-> Str("Move it forward"),
                                 leader_to_unblock |-> Bool(TRUE)]) >>
    /\ wrote = <<NoReq>>
    /\ arg = NoCall /\ ret = <<>> /\ req = NoReq /\ res = NoRes

NextUpdate ==
    \/ ReceiveUpdate
    \/ Update016 \/ safeUpdateItem016
    \/ Patch008 \/ Factors008 \/ safeUpdateItem008
    \/ Factors000

SpecUpdate == InitUpdate /\ [][NextUpdate]_vars

---------------------------------------------------------------------------
(* Specification SpecList: GET /api/list of part_000, part_016 and         *)
(* part_008 over tables of up to MaxRows rows.  All rows belong to the     *)
(* organisation asked for; of the payload only id, created_at, user_id and *)
(* priority_rank are kept.                                                 *)

MaxRows == 3

\* .order(col, {ascending, nullsFirst}) applied in turn: rows is ordered by
\* the terms, the earlier term first.  NULL sorts as the term says.
Ordered(rows, terms) ==
    LET Cmp(a, b, o) ==
            LET x == a[o.col]
                y == b[o.col]
            IN  IF x = Null /\ y = Null THEN 0
                ELSE IF x = Null THEN IF o.nullsFirst THEN -1 ELSE 1
                ELSE IF y = Null THEN IF o.nullsFirst THEN 1 ELSE -1
                ELSE IF x.x2 = y.x2 THEN 0
                ELSE IF (x.x2 < y.x2) = o.ascending THEN -1 ELSE 1
        Less(a, b) ==
            \E k \in 1..Len(terms) :
                /\ Cmp(a, b, terms[k]) = -1
                /\ \A j \in 1..(k - 1) : Cmp(a, b, terms[j]) = 0
    IN  \A i, j \in 1..Len(rows) : i < j => ~Less(rows[j], rows[i])

\* the answers the database can give to a query over rows: rows that compare
\* equal come in any order
Select(rows, terms) ==
    {data \in {[i \in 1..Len(rows) |-> rows[p[i]]] : p \in Permutations(1..Len(rows))} :
        Ordered(data, terms)}

ByRank(nullsFirst) ==
    <<[col |-> "priority_rank", ascending |-> FALSE, nullsFirst |-> nullsFirst],
      [col |-> "created_at", ascending |-> FALSE, nullsFirst |-> TRUE]>>

ByCreated(ascending) ==
    <<[col |-> "created_at", ascending |-> ascending, nullsFirst |-> ~ascending]>>

InitList ==
    /\ prog \in {"part_000", "part_016", "part_008"}
    /\ \E n \in 0..MaxRows :
          \E rows \in [1..n -> [user_id       : {Null, Str("u1")},
                                priority_rank : {Null, Num(N(38)), Num(N(72))},
                                created_at    : {Num(N(1)), Num(N(2))}]] :
              items = [i \in 1..n |-> [id |-> i] @@ rows[i]]
    /\ arg = <<>> /\ ret = <<>> /\ wrote = <<>> /\ req = NoReq /\ res = NoRes

\* the query sent, answered by an error or by data
Listed(query, rows, terms) ==
    /\ ret = <<>>
    /\ \/ ret' = << [query |-> query, status |-> 500] >>
       \/ \E data \in Select(rows, terms) :
              ret' = << [query |-> query, status |-> 200, items |-> data] >>
    /\ UNCHANGED <<arg, prog, items, wrote, req, res>>

\* part_000
List000 ==
    /\ prog = "part_000"
    /\ \E view \in {"all", "mine", "newest"}, user \in {"", "u1"} :
          Listed([view |-> view, user |-> user],
                 IF view = "mine" /\ user # ""
                 THEN SelectSeq(items, LAMBDA r : r.user_id = Str(user))
                 ELSE items,
                 IF view = "mine" /\ user # "" THEN ByRank(FALSE)
                 ELSE IF view = "newest" THEN ByCreated(FALSE)
                 ELSE ByRank(FALSE))

\* part_016
List016 ==
    /\ prog = "part_016"
    /\ Listed([view |-> "all"], items, ByRank(FALSE))

\* part_008
List008 ==
    /\ prog = "part_008"
    /\ \E orderParam \in {"rank_desc", "rank_asc", "newest", "oldest"} :
          Listed([order |-> orderParam], items,
                 IF orderParam = "newest" THEN ByCreated(FALSE)
                 ELSE IF orderParam = "oldest" THEN ByCreated(TRUE)
                 ELSE IF orderParam = "rank_asc"
                 THEN <<[col |-> "priority_rank", ascending |-> TRUE, nullsFirst |-> FALSE],
                        [col |-> "created_at", ascending |-> FALSE, nullsFirst |-> TRUE]>>
                 ELSE ByRank(TRUE))

NextList == List000 \/ List016 \/ List008

SpecList == InitList /\ [][NextList]_vars

---------------------------------------------------------------------------
(* Specification SpecOrg: GET /api/list of the variants that query         *)
(* postgres directly (part_001, the third program of part_014, index.js),  *)
(* over tables of up to MaxRows rows.  Of a row only id, created_at,       *)
(* priority_rank and org_slug are kept; arg holds the environment.         *)

\* s.trim() of a string value
trimmed(s) == Str(FromChars(Trim(Chars[s.v])))

\* where coalesce(org_slug, $1) = $1
Coalesced(rows, org) ==
    SelectSeq(rows, LAMBDA r : (IF r.org_slug = Null THEN org ELSE r.org_slug) = org)

\* where ($1::text is null or i.org_slug = $1)
Strict(rows, org) ==
    IF org = Null THEN rows ELSE SelectSeq(rows, LAMBDA r : r.org_slug = org)

\* order by coalesce(priority_rank, 0) desc, created_at desc
SelectPg(rows) ==
    LET rank(r) == IF r.priority_rank = Null THEN 0 ELSE r.priority_rank.x2
        Less(a, b) ==
            \/ rank(a) > rank(b)
            \/ rank(a) = rank(b) /\ a.created_at.x2 > b.created_at.x2
    IN  {data \in {[i \in 1..Len(rows) |-> rows[p[i]]] :
                      p \in Permutations(1..Len(rows))} :
            \A i, j \in 1..Len(data) : i < j => ~Less(data[j], data[i])}

\* the query of pool.query, answered by an error or by rows
ListedPg(query, rows) ==
    /\ ret = <<>>
    /\ \/ ret' = << [query |-> query, status |-> 500] >>
       \/ \E data \in SelectPg(rows) :
              ret' = << [query |-> query, status |-> 200, items |-> data] >>
    /\ UNCHANGED <<arg, prog, items, wrote, req, res>>

\* req.query.org
OrgQueries == {Undefined, Str(""), Str("acme"), Str(" acme "), Str("  ")}

\* part_001
ListPg001 ==
    /\ prog = "part_001"
    /\ \E q \in OrgQueries :
          LET org == OrElse(q, Null)
          IN  ListedPg([org |-> q],
                       IF Truthy(org) THEN Coalesced(items, org) ELSE items)

\* part_014, the third program
ListPg014 ==
    /\ prog = "part_014c"
    /\ \E q \in OrgQueries :
          LET envOrg == OrElse(trimmed(OrElse(arg.DEFAULT_ORG, Str(""))), Null)
              org    == OrElse(trimmed(OrElse(q, Str(""))), envOrg)
          IN  ListedPg([org |-> q],
                       IF org = Null THEN items ELSE Coalesced(items, org))

\* index.js, the postgres variant
ListPgIndex ==
    /\ prog = "index_pg"
    /\ \E q \in OrgQueries :
          LET DEFAULT_ORG == OrElse(arg.DEFAULT_ORG, Str("stmichaels"))
              org         == trimmed(OrElse(q, DEFAULT_ORG))
          IN  ListedPg([org |-> q], Strict(items, OrElse(org, Null)))

InitOrg ==
    /\ prog \in {"part_001", "part_014c", "index_pg"}
    /\ \E n \in 0..MaxRows :
          \E rows \in [1..n -> [org_slug      : {Null, Str("acme"), Str("beta")},
                                priority_rank : {Null, Num(N(38))}]] :
              items = [i \in 1..n |-> [id |-> i, created_at |-> Num(N(i))] @@ rows[i]]
    /\ arg \in [DEFAULT_ORG : {Undefined, Str("beta")}]
    /\ ret = <<>> /\ wrote = <<>> /\ req = NoReq /\ res = NoRes

NextOrg == ListPg001 \/ ListPg014 \/ ListPgIndex

SpecOrg == InitOrg /\ [][NextOrg]_vars

---------------------------------------------------------------------------
(* Claims about the helpers                                                *)

Ranked == Len(ret) = 1 /\ DOMAIN arg = RatingFields

\* the integer nearest to (57*ci + 43*te)*(6*fr + 4*ea)/1000, a half rounded up
ExactRank(r) ==
    ((57 * r.customer_impact + 43 * r.team_energy)
        * (6 * r.frequency + 4 * r.ease) + 500) \div 1000

\* C1: for all ratings in 1..10 computePriorityRank returns the exact
\* product (0.57*ci + 0.43*te)*(0.6*fr + 0.4*ea) rounded once to the nearest
\* integer, a half rounded up.
C1_RankIsExactRound ==
    Ranked => ret[1].priority_rank = Num(N(ExactRank(arg)))

\* C2: for all ratings in 1..10 the rank returned lies in 1..100.
C2_RankInRange ==
    Ranked => /\ ret[1].priority_rank.x2 >= N(1)
              /\ ret[1].priority_rank.x2 <= N(100)

C2_Witness ==
    /\ Ranked
    /\ arg = [f \in RatingFields |-> 10]
    /\ ret[1].priority_rank = Num(N(100))

\* C4: the escalation flag returned is true exactly when teamEnergy >= 9 and
\* ease <= 3, whatever customerImpact and frequency are.
C4_FlagRule ==
    Ranked => ret[1].leader_to_unblock = (arg.team_energy >= 9 /\ arg.ease <= 3)

C4_Witness ==
    /\ Ranked
    /\ arg.team_energy = 9 /\ arg.ease = 3 /\ arg.customer_impact = 5
    /\ ret[1].leader_to_unblock

BandLabel(r) ==
    CASE r \in 70..100 -> "Make it happen"
      [] r \in 50..69  -> "Act on it now"
      [] r \in 36..49  -> "Move it forward"
      [] r \in 25..35  -> "When time allows"
      [] r \in 1..24   -> "Park for later"

TierLevel(label) ==
    CASE label = "Make it happen"   -> 5
      [] label = "Act on it now"    -> 4
      [] label = "Move it forward"  -> 3
      [] label = "When time allows" -> 2
      [] label = "Park for later"   -> 1

Tiered == Len(ret) = 1 /\ DOMAIN arg = {"a", "b"}

\* C3: every integer rank in 1..100 gets the label of its band (>= 70,
\* 50..69, 36..49, 25..35, < 25), and for ranks a <= b the tier of b is never
\* a lower band than the tier of a.
C3_TierBands ==
    Tiered => /\ ret[1].a = BandLabel(arg.a)
              /\ ret[1].b = BandLabel(arg.b)
              /\ arg.a <= arg.b => TierLevel(ret[1].a) <= TierLevel(ret[1].b)

C3_Witness ==
    /\ Tiered
    /\ arg.a = 69 /\ arg.b = 70
    /\ ret[1].a = "Act on it now" /\ ret[1].b = "Make it happen"

\* the integer nearest to the same exact product, a half rounded to the even
\* neighbour
HalfEven(r) ==
    LET p == (57 * r.customer_impact + 43 * r.team_energy)
                 * (6 * r.frequency + 4 * r.ease)
        q == p \div 1000
    IN  IF p % 1000 > 500 \/ (p % 1000 = 500 /\ q % 2 = 1) THEN q + 1 ELSE q

\* the rating sets whose exact product is an even integer and a half
EvenHalves ==
    {r \in [RatingFields -> 1..10] :
        /\ r.frequency = 10 /\ r.ease = 10
        /\ r.customer_impact = r.team_energy + 5}

\* C15 as stated: for all ratings in 1..10 the exact product rounded half
\* away from zero equals the exact product rounded half to even.
C15_RoundingRulesAgree ==
    Ranked => ExactRank(arg) = HalfEven(arg)

\* C15 amended: the two roundings of the exact product agree for all ratings
\* in 1..10 except frequency = ease = 10 with customer_impact = team_energy
\* + 5; there half away from zero gives one more than half to even, and
\* computePriorityRank returns the half-away value.
C15_RulesAgreeButOnEvenHalves ==
    Ranked => IF arg \in EvenHalves
              THEN /\ ExactRank(arg) = HalfEven(arg) + 1
                   /\ ret[1].priority_rank = Num(N(ExactRank(arg)))
              ELSE ExactRank(arg) = HalfEven(arg)

C15_Witness ==
    /\ Ranked
    /\ arg = [customer_impact |-> 6, team_energy |-> 1, frequency |-> 10, ease |-> 10]
    /\ ret[1].priority_rank = Num(N(39))

\* C16: some rating set in 1..10 gets the lowest tier with the escalation
\* flag true (1, 9, 1, 1) and some gets the highest tier with the flag false
\* (10, 10, 10, 10).
C16_FlagDecoupledFromTier ==
    Ranked =>
        /\ arg = [customer_impact |-> 1, team_energy |-> 9, frequency |-> 1, ease |-> 1]
               => /\ ret[1].action_tier = "Park for later"
                  /\ ret[1].leader_to_unblock
        /\ arg = [f \in RatingFields |-> 10]
               => /\ ret[1].action_tier = "Make it happen"
                  /\ ~ret[1].leader_to_unblock

C16_Witness ==
    /\ Ranked
    /\ arg = [customer_impact |-> 1, team_energy |-> 9, frequency |-> 1, ease |-> 1]
    /\ ret[1].action_tier = "Park for later"
    /\ ret[1].leader_to_unblock

---------------------------------------------------------------------------
(* Claims about title derivation                                           *)

Titled == Len(ret) = 1 /\ DOMAIN arg = {"title", "transcript"}

\* missing, empty or whitespace only
Blank(s) == s.t # "string" \/ \A i \in 1..Len(s.cs) : s.cs[i] \in Whitespace

\* cs without leading and trailing whitespace and with each whitespace run
\* turned into one space
Normal(cs) ==
    LET inner(i) == /\ \E j \in 1..(i - 1) : cs[j] \notin Whitespace
                    /\ \E j \in (i + 1)..Len(cs) : cs[j] \notin Whitespace
        marked == [i \in 1..Len(cs) |->
                      IF cs[i] \notin Whitespace THEN <<cs[i]>>
                      ELSE IF inner(i) /\ cs[i - 1] \notin Whitespace THEN <<" ">>
                      ELSE <<>>]
        Kept(m) == m # <<>>
        kept == SelectSeq(marked, Kept)
    IN  [i \in 1..Len(kept) |-> kept[i][1]]

First80(cs) == [i \in 1..(IF Len(cs) < 80 THEN Len(cs) ELSE 80) |-> cs[i]]

NeverBlank == ~Blank(Text(ret[1].title))

\* C14 as stated: the derived title is never blank; a non-blank title is
\* returned as it is; a blank title with a non-blank free text gives the
\* text trimmed, whitespace runs collapsed, cut to 80 characters; both blank
\* give "(untitled)".
C14_TitleDerivation ==
    Titled =>
        /\ NeverBlank
        /\ ret[1].title =
              IF ~Blank(arg.title) THEN arg.title.cs
              ELSE IF ~Blank(arg.transcript) THEN First80(Normal(arg.transcript.cs))
              ELSE Untitled

\* C14 amended: as stated, but a non-blank title is returned trimmed and
\* with its whitespace runs collapsed, and makeTitle also cuts it to its
\* first 80 characters.
C14_TitleDerivationNormalised ==
    Titled =>
        /\ NeverBlank
        /\ ret[1].title =
              IF ~Blank(arg.title)
              THEN IF ret[1].by = "makeTitle" THEN First80(Normal(arg.title.cs))
                   ELSE Normal(arg.title.cs)
              ELSE IF ~Blank(arg.transcript) THEN First80(Normal(arg.transcript.cs))
              ELSE Untitled

C14_Witness ==
    /\ Titled
    /\ ret[1].by = "makeTitle"
    /\ Blank(arg.title)
    /\ arg.transcript = Text(Long(<<"a", " ", "\n">>, 90))
    /\ Len(ret[1].title) = 80

---------------------------------------------------------------------------
(* Claims about updates                                                    *)

FrameKeys == {"priority_rank", "frequency", "ease", "team_energy", "title", "transcript"}

\* C20: after an update answered with success by part_016 handleUpdate,
\* part_008 POST /api/items/:id/factors or part_000 POST /items/:id/factors,
\* each of priority_rank, frequency, ease, team_energy, title and transcript
\* that the request body does not carry is stored as it was before.
C20_UpdateKeepsAbsentFields ==
    [][ ( /\ prog \in {"part_016", "part_008", "part_000"}
          /\ req.op \in {"update", "factors"}
          /\ req' = NoReq
          /\ res'.status = 200 )
        => \A i \in 1..Len(items) : \A k \in FrameKeys :
              Get(req.body, k) = Undefined => items'[i][k] = items[i][k] ]_vars

InCall(p) == prog = p /\ "pc" \in DOMAIN arg

\* an update request to part_016 is answered with success in this step
Saved016 ==
    /\ prog = "part_016" /\ req.op = "update"
    /\ req' = NoReq /\ res'.status = 200

\* C21: in part_016 an update request that carries leader_to_unlock and no
\* leader_to_unblock, answered with success for an item of the table, leaves
\* the value it carried in the item's leader_to_unblock column.
C21_MisspelledFlagRemapped ==
    [][ ( /\ Saved016
          /\ Exists(req.id)
          /\ Get(req.body, "leader_to_unlock") # Undefined
          /\ Get(req.body, "leader_to_unblock") = Undefined )
        => items'[req.id].leader_to_unblock = req.body.leader_to_unlock ]_vars

\* C22: every update safeUpdateItem of part_008 has sent carried at least one
\* column.
C22_NoEmptyPayload ==
    InCall("part_008") => \A i \in 1..Len(arg.sent) : arg.sent[i] >= 1

\* C23: safeUpdateItem of part_008 sends at most 3 updates; an answer without
\* error returns the row; an error other than 42703 returns the error
\* without another update; a 42703 error removes the column it names and
\* goes on to the next attempt; after three failed updates the result is
\* update_failed_after_retries.
C23_AtMostThreeAttempts ==
    /\ [](InCall("part_008") => Len(arg.sent) <= 3)
    /\ [][ (InCall("part_008") /\ arg.pc = "loop") =>
             IF Len(arg'.sent) = Len(arg.sent)
             THEN /\ arg'.pc = "done"
                  /\ arg'.result = IF arg.sent = <<>> THEN "null"
                                   ELSE "update_failed_after_retries"
                  /\ arg.sent # <<>> => Len(arg.sent) = 3
             ELSE CASE arg'.answer.code = "" ->
                          /\ arg'.pc = "done"
                          /\ arg'.result = IF Exists(req.id) THEN "row" ELSE "null"
                    [] arg'.answer.code = "42703" ->
                          /\ arg'.pc = "loop"
                          /\ DOMAIN arg'.payload
                                = DOMAIN arg.payload \ {arg'.answer.column}
                    [] OTHER ->
                          /\ arg'.pc = "done"
                          /\ arg'.result = "error" ]_vars

C25_SuccessMeansSaved ==
    [][ Saved016 =>
          /\ Exists(req.id)
          /\ Len(arg'.sent) >= 1
          /\ arg'.sent[Len(arg'.sent)] >= 1
          /\ arg'.answer.code = "" ]_vars

---------------------------------------------------------------------------
(* Claims about the list                                                   *)

\* a list was answered with data
Answered == Len(ret) = 1 /\ "items" \in DOMAIN ret[1]

RankedQuery ==
    \/ prog \in {"part_000", "part_016"} /\ ret[1].query.view = "all"
    \/ prog = "part_008" /\ ret[1].query.order = "rank_desc"

NewestQuery ==
    \/ prog = "part_000" /\ ret[1].query.view = "newest"
    \/ prog = "part_008" /\ ret[1].query.order = "newest"

\* C13: in the ranked (default) order of GET /api/list of part_000, part_016
\* and part_008 an item with a priority_rank never comes after one without,
\* and of two items with a priority_rank the earlier has the higher rank or
\* the same rank and a created_at that is not older; in the newest order the
\* earlier item never has the older created_at.
C13_ListOrder ==
    Answered =>
        LET l == ret[1].items
        IN  /\ RankedQuery =>
                \A i, j \in 1..Len(l) : i < j =>
                    /\ l[i].priority_rank = Null => l[j].priority_rank = Null
                    /\ (l[i].priority_rank # Null /\ l[j].priority_rank # Null) =>
                          \/ l[i].priority_rank.x2 > l[j].priority_rank.x2
                          \/ /\ l[i].priority_rank = l[j].priority_rank
                             /\ l[i].created_at.x2 >= l[j].created_at.x2
            /\ NewestQuery =>
                \A i, j \in 1..Len(l) : i < j => l[i].created_at.x2 >= l[j].created_at.x2

---------------------------------------------------------------------------
(* Claims about the handlers that compute the result on the server         *)

\* a rating as the specification admits it: a whole number in 1..10, given
\* as a Number or as a string that reads as one
RatingIsValid(v) ==
    /\ v.t \in {"number", "string"}
    /\ v # Str("")
    /\ IsFinite(Number(v))
    /\ IsInteger(Number(v).x2)
    /\ Number(v).x2 >= N(1)
    /\ Number(v).x2 <= N(10)

InvalidRatings(b) == \E f \in RatingFields : ~RatingIsValid(Get(b, f))

\* the result a row holds is the helpers' result for the ratings it holds
ResultOfRatings(r) ==
    LET pr == computePriorityRank(r.customer_impact.x2, r.team_energy.x2,
                                  r.frequency.x2, r.ease.x2)
    IN  /\ r.priority_rank = Num(pr)
        /\ r.action_tier = Str(tierForPR(pr))
        /\ r.leader_to_unblock = Bool(shouldLeaderUnblock(r.team_energy.x2, r.ease.x2))

\* C5: a /items/:id/factors request of part_000, part_007 or part_014 in
\* which a rating is missing, non-numeric, non-integer or outside 1..10 is
\* answered with status 400 and leaves the table as it was.
C5_InvalidFactorsRejected ==
    [][ ( /\ prog \in {"part_000", "part_007", "part_014"}
          /\ req.op = "factors"
          /\ InvalidRatings(req.body)
          /\ req' = NoReq )
        => (res'.status = 400 /\ items' = items) ]_vars

\* C6: in part_000 every row written by /items/new or /items/:id/factors
\* holds the priority_rank, action_tier and leader_to_unblock that
\* computePriorityRank, tierForPR and shouldLeaderUnblock give for the four
\* ratings the row holds.
C6_StoredResultMatchesHelpers ==
    prog = "part_000" =>
        \A i \in 1..Len(items) : ResultOfRatings(items[i])

C6_Witness ==
    /\ prog = "part_000"
    /\ Len(items) >= 1
    /\ wrote[1].op = "factors"
    /\ res.status = 200
    /\ items[1].customer_impact = Num(N(8))
    /\ items[1].ease = Num(N(9))
    /\ items[1].priority_rank = Num(N(72))
    /\ items[1].action_tier = Str("Make it happen")

\* C10: a row created by /items/new of part_007, /items/new of part_014 or
\* /api/items of part_004 holds either no result at all (the three result
\* columns null) or the whole result computed from four ratings in 1..10.
C10_NoPartialResult ==
    prog \in {"part_007", "part_014", "part_004"} =>
        \A i \in 1..Len(items) :
            wrote[i].op \in CreatingOps =>
                \/ \A c \in ResultFields : items[i][c] = Null
                \/ /\ \A f \in RatingFields : finite1to10(items[i][f])
                   /\ ResultOfRatings(items[i])

---------------------------------------------------------------------------
(* Claims about the handlers that store what the client sends              *)

SameRatings(b1, b2) == \A f \in RatingFields : Get(b1, f) = Get(b2, f)

\* C7: in part_001, part_012 and the pg variant of index.js, a
\* /items/:id/factors request that carries the same four ratings as the
\* request that last wrote the row leaves the row's priority_rank,
\* action_tier and leader_to_unblock as they were, whatever result fields
\* the two requests carry.
C7_ResultFromRatingsAlone ==
    [][ ( /\ prog \in {"part_001", "part_012", "index_pg"}
          /\ req.op = "factors"
          /\ Exists(req.id)
          /\ wrote[req.id].op = "factors"
          /\ SameRatings(wrote[req.id].body, req.body)
          /\ req' = NoReq
          /\ res'.status = 200 )
        => \A c \in ResultFields : items'[req.id][c] = items[req.id][c] ]_vars

\* the columns that hold the four ratings, named as the body keys are
RatingKeys == IF prog = "part_014b" THEN DOMAIN Sliders(EmptyBody) ELSE RatingFields

\* C8: in part_012, the pg variant of index.js and /api/items/:id/rank of
\* part_014, a rating a row holds after a ratings update is the number the
\* request supplied, and that number lies in 1..10 (a value out of range is
\* never written, clamped or not).
C8_NoClamping ==
    prog \in {"part_012", "index_pg", "part_014b"} =>
        \A i \in 1..Len(items) :
            wrote[i].op \in {"factors", "rank"} =>
                \A k \in RatingKeys :
                    LET supplied == Number(Get(wrote[i].body, k))
                    IN  IsFinite(supplied) =>
                            /\ items[i][k] = supplied
                            /\ supplied.x2 >= N(1)
                            /\ supplied.x2 <= N(10)

---------------------------------------------------------------------------
(* Claims about index.js, Supabase variant                                 *)

\* a rating supplied as a number in 1..10
RatingInRange(v) ==
    /\ v.t \in {"number", "string"}
    /\ v # Str("")
    /\ IsFinite(Number(v))
    /\ Number(v).x2 >= N(1)
    /\ Number(v).x2 <= N(10)

\* C9: in the Supabase variant of index.js a row holds a priority_rank only
\* if the request that wrote it supplied each of the four ratings as a
\* number in 1..10, and a priority_rank held lies in 1..100.
C9_NoDefaultedRank ==
    prog = "index_sb" =>
        \A i \in 1..Len(items) :
            items[i].priority_rank # Null =>
                /\ \A f \in RatingFields : RatingInRange(Get(wrote[i].body, f))
                /\ items[i].priority_rank.x2 >= N(1)
                /\ items[i].priority_rank.x2 <= N(100)

---------------------------------------------------------------------------
(* Claims about the error responses                                        *)

\* the error message e holds the name of field f: of the messages the
\* handlers send, only the `Invalid ${k}: ...` templates hold a field name
Mentions(e, f) ==
    e \in {"Invalid " \o f \o ": must be number 1..10",
           "Invalid " \o f \o ": must be 1..10"}

\* the rating fields of body b that the validation of the running variant
\* turns down
FailedFields(b) ==
    IF prog = "part_000"
    THEN {f \in RatingFields : num1to10(Get(b, f)) = Null}
    ELSE {f \in RatingFields : ~finite1to10(numOrNull(Get(b, f)))}

\* C11: when /items/:id/factors of part_000 or part_007 answers 400, the
\* error message names every rating field that failed the validation.
C11_ErrorNamesEveryField ==
    [][ ( /\ prog \in {"part_000", "part_007"}
          /\ req.op = "factors"
          /\ req' = NoReq
          /\ res'.status = 400 )
        => \A f \in FailedFields(req.body) : Mentions(res'.error, f) ]_vars

---------------------------------------------------------------------------
(* Claims about the lifecycle stage                                        *)

\* C12: in the Supabase variant of index.js and in part_004, no create,
\* ratings-update or stage-update request lowers the stage an item holds.
C12_StageOnlyAdvances ==
    [][ \A i \in 1..Len(items) :
            (items[i].stage.t = "number" /\ items'[i].stage.t = "number")
                => items'[i].stage.x2 >= items[i].stage.x2 ]_vars

\* a stage request on an existing item has just been answered
StageAnswered(p) ==
    /\ prog = p
    /\ req.op = "stage"
    /\ req' = NoReq
    /\ Exists(req.id)

\* C17: an accepted /api/items/:id/stage request of index.js leaves the note
\* in the note field of the stage the item held before the request, moves
\* the item to that stage + 1 (9 stays 9) and changes the note field of no
\* other stage.
C17_NoteGoesToCurrentStage ==
    [][ ( /\ StageAnswered("index_sb")
          /\ res'.status = 200
          /\ items[req.id].stage.t = "number" )
        => LET cur  == items[req.id].stage.x2 \div 2
               note == Get(req.body, "note")
           IN  /\ items'[req.id].stage = Num(N(Min(cur + 1, 9)))
               /\ \A n \in DOMAIN fieldMap :
                      items'[req.id][fieldMap[n]] =
                          IF n = cur /\ note # Undefined THEN note
                          ELSE items[req.id][fieldMap[n]] ]_vars

\* the stage a row holds is written as a whole number in 1..9
StageInRange(row) ==
    /\ row.stage.t = "number"
    /\ IsInteger(row.stage.x2)
    /\ row.stage.x2 >= N(1)
    /\ row.stage.x2 <= N(9)

\* C18: in the Supabase variant of index.js every row last written by a
\* create, a ratings or a stage request with a numeric stage holds a whole
\* stage in 1..9, and a stage request whose numeric stage is not a whole
\* number in 1..9 is answered 400 and changes nothing.
C18_StageStaysInRange ==
    /\ [](prog = "index_sb" =>
            \A i \in 1..Len(items) :
                (wrote[i].op = "stage" => Get(wrote[i].body, "stage").t = "number")
                    => StageInRange(items[i]))
    /\ [][ ( /\ prog = "index_sb"
             /\ req.op = "stage"
             /\ req' = NoReq
             /\ Get(req.body, "stage").t = "number"
             /\ ~StageInRange(req.body) )
           => (res'.status = 400 /\ items' = items) ]_vars

C18_Witness ==
    /\ prog = "index_sb"
    /\ Len(items) = 1
    /\ wrote[1].op = "stage"
    /\ Get(wrote[1].body, "stage") = Num(N(9))
    /\ items[1].stage = Num(N(9))
    /\ items[1].stage_9_share_story = Str("note")
    /\ res.status = 200

\* the note columns whose name carries the number of stage n
NoteColsOf(n) ==
    {c \in {fieldMap[k] : k \in DOMAIN fieldMap} \cup {NoteCol(k) : k \in 3..8}
              \cup {"stage_9_share"} :
        \E rest \in {"capture", "involve", "choose", "prepare", "act", "learn",
                     "recognise", "share", "share_story"} :
            c = "stage_" \o StageDigit[n] \o "_" \o rest}

\* C19: in index.js and part_004 a stage request that names a stage n in
\* 1..9 and carries a note is accepted, and the note is then held in a note
\* column of stage n.
C19_EveryStageHasNoteField ==
    [][ ( /\ (StageAnswered("index_sb") \/ StageAnswered("part_004"))
          /\ res'.status # 500
          /\ Get(req.body, "stage") \in {Num(N(n)) : n \in 1..9}
          /\ Truthy(Get(req.body, "note")) )
        => /\ res'.status = 200
           /\ \E c \in NoteColsOf(Get(req.body, "stage").x2 \div 2) :
                  items'[req.id][c] \in {Get(req.body, "note"),
                                         Str(clean(Get(req.body, "note")))} ]_vars

\* a factors request of part_004 on an existing item has just been answered
FactorsAnswered004 ==
    /\ prog = "part_004"
    /\ req.op = "factors"
    /\ req' = NoReq
    /\ Exists(req.id)

\* the item is at stage 1 and holds no stage_2_timestamp
FirstRating(row) == row.stage = Num(N(1)) /\ ~Truthy(row.stage_2_timestamp)

BothFinished ==
    /\ prog = "part_004"
    /\ req = NoReq
    /\ arg # <<>>
    /\ ret # <<>>
    /\ ret.status = 200
    /\ Exists(ret.request.id)

\* C27: in part_004, when a factors request and a stage request for the
\* same item run side by side, and the stage request sets a stage s >= 2,
\* the item is at stage s once both handlers have finished.
C27_FactorsKeepsRequestedStage ==
    (BothFinished /\ stageNum004(ret.request.body).x2 >= N(2))
        => items[ret.request.id].stage = stageNum004(ret.request.body)

---------------------------------------------------------------------------
(* Claims about the organisation filter                                    *)

\* C28: in the postgres variants (part_001, the third program of part_014,
\* index.js) a list request with org = X is answered with items whose
\* stored org_slug is X only; an item with no org_slug or with another one
\* is not in the answer.
C28_ListScopedToOrg ==
    (Answered /\ Truthy(ret[1].query.org))
        => \A i \in 1..Len(ret[1].items) :
               items[ret[1].items[i].id].org_slug = ret[1].query.org

===========================================================================
